---------------------------- MODULE Spec2Model ----------------------------
(***************************************************************************)
(* Licence-plate localisation and recognition pipeline of the toll system: *)
(* the text normaliser / grammar validator (anpr/ocr_model.py), the        *)
(* candidate deduplicator (anpr/universal_detector.py), the orchestrator   *)
(* detect_and_recognize_plate (anpr/detector.py) and its caller            *)
(* process_plate_image (anpr/lightweight_processor.py); then the arrays   *)
(* of one call, the candidate generators, infer_plate_text seen from its   *)
(* caller, preprocess_image (anpr/preprocess.py), the payment log          *)
(* (payments/transactions.py), validate_international_plate and the boom   *)
(* gate (boom_gate/models.py).                                             *)
(*                                                                         *)
(* A text is a sequence of characters; a character is a one-character      *)
(* string, or the code point "Uxxxx" for a character outside ASCII.        *)
(* Scores are kept in tenths (0.5 is 5), overlap fractions as exact        *)
(* integer cross products.                                                 *)
(***************************************************************************)
EXTENDS Integers, Sequences, FiniteSets, TLC

VARIABLES
    text,        \* validator: the raw text handed to validate_plate_text
    vout,        \* validator: what validate_plate_text computed for text
    candidates,  \* deduplicator: the concatenated strategy outputs
    filtered,    \* deduplicator: what _remove_overlaps returned for candidates
    kept,        \* deduplicator: what detect_plates returned for candidates
    pc,          \* pipeline: the position of the invocation
    caller,      \* pipeline: "process_plate_image" or "direct"
    image,       \* pipeline: the kind of image_data handed to the detector
    backend,     \* pipeline: how the OCR backend behaves in this run
    regions,     \* pipeline: the local regions of detect_and_recognize_plate
    idx,         \* pipeline: the next region of the per-region loop
    best_result, \* pipeline: the local best_result (NoResult: None)
    best_confidence, \* pipeline: the local best_confidence, in tenths
    result,      \* pipeline: what detect_and_recognize_plate returned
    ppi,         \* pipeline: what process_plate_image returned
    tiers,       \* history: the tiers invoked, in order, each with its output
    tried,       \* history: per region processed, the spans, text and score
    ocrCalls,    \* history: the number of reader.readtext calls
    elapsed,     \* pipeline: the time since start_time, in steps
    best_time,   \* pipeline: the processing_time of best_result
    processing_time, \* pipeline: the processing_time returned (-1: none)
    run,         \* pipeline: 1 in a first call, 2 in a repeated call
    first,       \* history: the result, tiers and regions of the first call
    scoreIn,     \* scorer: the spans and the area of one region
    scoreOut,    \* scorer: the text and the score the region got
    input0,     \* frame: the pixels of the input array when the call was made
    input,      \* frame: the pixels of the input array now
    colour,     \* frame: whether the input array has three channels
    fpc,        \* frame: the position of the call in its array operations
    fstrategy,  \* frame: the next strategy of detect_plates
    fregion,    \* frame: the regions processed so far
    arrays,     \* frame: which storage the locals roi, enhanced_roi and processed_roi share
    dpc,        \* generators: the position of detect_plates and of the fallback tiers
    strategy,   \* generators: the next entry of self.strategies
    outcomes,   \* history: per generator run, whether it failed, raised, and its value
    ipc,        \* extractor: the position of the loop calling infer_plate_text
    inferLog,   \* history: per call of infer_plate_text, its inputs and its outcome
    preIn,      \* preprocessing: the img_data handed to preprocess_image
    preOut,     \* preprocessing: whether preprocess_image raised, and the dict it returned
    payN,       \* payments: the argument n of simulate_transaction_log
    payI,       \* payments: the loop variable i
    payOut,     \* payments: the list out
    paypc,      \* payments: the position of simulate_transaction_log
    accounts,   \* payments: per plate, whether it is registered and the balance of its user
    payPaths,   \* history: the path each call of process_payment took
    intl,       \* international validator: what validate_international_plate returned for text
    gate_state, \* boom gate: main_gate.state
    is_operational, \* boom gate: main_gate.is_operational
    tasks,      \* boom gate: per coroutine, its call, its position and what its calls returned
    stops,      \* boom gate: the emergency stops issued so far
    stopped     \* history: an emergency stop was issued and no open_gate or auto_cycle call since

valVars == <<text, vout>>
dedupVars == <<candidates, filtered, kept>>
pipeVars == <<pc, caller, image, backend, regions, idx, best_result,
              best_confidence, result, ppi, tiers, tried, ocrCalls, elapsed,
              best_time, processing_time, run, first>>
scoreVars == <<scoreIn, scoreOut>>
frameVars == <<input0, input, colour, fpc, fstrategy, fregion, arrays>>
genVars == <<dpc, strategy, outcomes>>
inferVars == <<ipc, inferLog>>
preVars == <<preIn, preOut>>
payVars == <<payN, payI, payOut, paypc, accounts, payPaths>>
intlVars == <<intl>>
gateVars == <<gate_state, is_operational, tasks, stops, stopped>>

-----------------------------------------------------------------------------
(* Sequence helpers *)

RECURSIVE SelectSeqOf(_, _)
SelectSeqOf(s, S) ==
    IF s = <<>> THEN <<>>
    ELSE IF Head(s) \in S THEN <<Head(s)>> \o SelectSeqOf(Tail(s), S)
         ELSE SelectSeqOf(Tail(s), S)

Range(s) == {s[i] : i \in DOMAIN s}

-----------------------------------------------------------------------------
(* Character classes of the regular expressions in validate_plate_text *)

UpperSeq == <<"A","B","C","D","E","F","G","H","I","J","K","L","M",
              "N","O","P","Q","R","S","T","U","V","W","X","Y","Z">>
LowerSeq == <<"a","b","c","d","e","f","g","h","i","j","k","l","m",
              "n","o","p","q","r","s","t","u","v","w","x","y","z">>

UpperLatin == Range(UpperSeq)
Digits == {"0","1","2","3","4","5","6","7","8","9"}
Whitespace == {" "}
Hyphen == {"-"}

\* unicodedata.normalize('NFKD', text): e-acute decomposes into e and the
\* combining acute accent; the other characters of the model have no
\* decomposition.
NFKD(c) == IF c = "U00E9" THEN <<"e", "U0301">> ELSE <<c>>

\* text_replacements, applied key by key: punctuation variants, Cyrillic
\* look-alikes, and the digits 0 and 1 (no replacement is itself a key).
text_replacements(c) ==
    CASE c \in {"U00B7", "U2022", "U2027"} -> " "
      [] c \in {"U2212", "U2013", "U2014"} -> "-"
      [] c = "U041E" -> "O"
      [] c = "U0410" -> "A"
      [] c = "U0412" -> "B"
      [] c = "U0415" -> "E"
      [] c = "U041D" -> "H"
      [] c = "U0406" -> "I"
      [] c = "U0420" -> "P"
      [] c = "U0421" -> "C"
      [] c = "U0422" -> "T"
      [] c = "U0425" -> "X"
      [] c = "0" -> "O"
      [] c = "1" -> "I"
      [] OTHER -> c

\* str.upper() on one character
Upper(c) ==
    IF \E i \in DOMAIN LowerSeq : LowerSeq[i] = c
    THEN UpperSeq[CHOOSE i \in DOMAIN LowerSeq : LowerSeq[i] = c]
    ELSE c

\* str.strip(): leading and trailing whitespace removed
RECURSIVE LStrip(_)
LStrip(s) ==
    IF s # <<>> /\ Head(s) \in Whitespace THEN LStrip(Tail(s)) ELSE s

RECURSIVE RStrip(_)
RStrip(s) ==
    IF s # <<>> /\ s[Len(s)] \in Whitespace
    THEN RStrip(SubSeq(s, 1, Len(s) - 1)) ELSE s

Strip(s) == RStrip(LStrip(s))

-----------------------------------------------------------------------------
(* The grammar table: each pattern is ^ run run ... $, a run being a       *)
(* character class with a minimum and a maximum repeat count.              *)

L(lo, hi) == [class |-> UpperLatin, min |-> lo, max |-> hi]
D(lo, hi) == [class |-> Digits, min |-> lo, max |-> hi]

patterns ==
    << <<L(2,2), D(2,2), L(3,3)>>,     \* EU standard: AB12CDE
       <<L(1,2), D(3,4), L(1,2)>>,     \* General EU
       <<L(1,1), D(1,3), L(3,3)>>,     \* UK format
       <<L(2,2), D(2,2), L(3,3)>>,     \* UK current
       <<L(2,3), D(3,4)>>,             \* US state
       <<D(3,3), L(3,3)>>,             \* US numeric
       <<L(2,3), D(3,4), L(0,2)>>,     \* Zimbabwe
       <<L(1,3), D(1,4), L(0,3)>>,     \* General
       <<D(1,4), L(1,4), D(0,4)>>,     \* Mixed
       <<L(1,2), D(4,6)>>,             \* Simple
       <<D(4,6), L(1,2)>> >>           \* Reverse

\* re.match(pattern, s) for an anchored pattern: the runs consume s from
\* position i on and end exactly at its end.
RECURSIVE MatchFrom(_, _, _, _)
MatchFrom(s, i, pat, j) ==
    IF j > Len(pat) THEN i = Len(s) + 1
    ELSE \E n \in pat[j].min .. pat[j].max :
            /\ i + n - 1 <= Len(s)
            /\ \A k \in i .. (i + n - 1) : s[k] \in pat[j].class
            /\ MatchFrom(s, i + n, pat, j + 1)

ReMatch(pat, s) == MatchFrom(s, 1, pat, 1)

\* "for pattern in patterns: if re.match(pattern, cleaned)": the pattern the
\* loop returns at, trying them in table order from p on; 0 when none matches
RECURSIVE FirstMatchFrom(_, _)
FirstMatchFrom(s, p) ==
    IF p > Len(patterns) THEN 0
    ELSE IF ReMatch(patterns[p], s) THEN p
    ELSE FirstMatchFrom(s, p + 1)

FirstMatch(s) == FirstMatchFrom(s, 1)

MinPlateLen == 4
MaxPlateLen == 9

\* one character after normalisation, substitution and upper-casing
NormalizedChar(c) ==
    LET nf == NFKD(c)
    IN  [i \in 1 .. Len(nf) |-> Upper(text_replacements(nf[i]))]

\* the text after normalisation, substitution and upper-casing (lines 86-114)
RECURSIVE Normalized(_)
Normalized(t) ==
    IF t = <<>> THEN <<>> ELSE NormalizedChar(Head(t)) \o Normalized(Tail(t))

\* the validator without the removal of the characters outside the classes
structured_text_unstripped(t) == Normalized(t)

structured_text(t) ==
    SelectSeqOf(Normalized(t), UpperLatin \cup Digits \cup Whitespace \cup Hyphen)

cleaned(t) == SelectSeqOf(structured_text(t), UpperLatin \cup Digits)

\* the length check without its upper limit
LengthOutOfRange_no_upper(c) == Len(c) < MinPlateLen

\* the length check rejecting the minimum length as well
LengthOutOfRange_off_by_one(c) == Len(c) <= MinPlateLen \/ Len(c) > MaxPlateLen

LengthOutOfRange(c) == Len(c) < MinPlateLen \/ Len(c) > MaxPlateLen

\* the generic rule asking for a letter or a digit
HasLetterOrDigit(c) ==
    /\ \/ \E k \in DOMAIN c : c[k] \in UpperLatin
       \/ \E k \in DOMAIN c : c[k] \in Digits
    /\ MinPlateLen <= Len(c) /\ Len(c) <= MaxPlateLen

HasBothLetterAndDigit(c) ==
    /\ \E k \in DOMAIN c : c[k] \in UpperLatin
    /\ \E k \in DOMAIN c : c[k] \in Digits
    /\ MinPlateLen <= Len(c) /\ Len(c) <= MaxPlateLen

\* validate_plate_text: isValid and display are the returned pair; cleaned
\* is the local the patterns are matched against, matched the pattern the
\* loop returned at (0: the loop was not entered or matched nothing).
validate_plate_text(t) ==
    IF t = <<>>
    THEN [isValid |-> FALSE, display |-> <<>>, cleaned |-> <<>>, matched |-> 0]
    ELSE LET st == structured_text(t)
             cl == cleaned(t)
             out(ok, m) == [isValid |-> ok, display |-> Strip(st),
                            cleaned |-> cl, matched |-> m]
             m == FirstMatch(cl)
         IN  IF LengthOutOfRange(cl) THEN out(FALSE, 0)
             ELSE IF m # 0 THEN out(TRUE, m)
             ELSE IF HasBothLetterAndDigit(cl) THEN out(TRUE, 0)
             ELSE out(FALSE, 0)

-----------------------------------------------------------------------------
(* The validator applied to every raw text within the bounds: every text   *)
(* over Alphabet of up to MaxRichLen characters, and every text over       *)
(* CoreAlphabet of up to MaxTextLen characters.                            *)

Alphabet == {"A", "b", "2", "1", " ", "-", "!", "U00B7", "U0410", "U00E9"}
CoreAlphabet == {"A", "2"}
MaxRichLen == 4
MaxTextLen == 10

\* validate_plate_text is called on the text extended by one character
ValidateNext(c) ==
    /\ Len(text) < MaxRichLen
    /\ c \in Alphabet
    /\ text' = Append(text, c)
    /\ vout' = validate_plate_text(text')

\* the same on the long texts, made of letters and digits only
ValidateLong(c) ==
    /\ Len(text) < MaxTextLen
    /\ c \in CoreAlphabet
    /\ Range(text) \subseteq CoreAlphabet
    /\ text' = Append(text, c)
    /\ vout' = validate_plate_text(text')

-----------------------------------------------------------------------------
(* Candidate aggregator / deduplicator.  A rectangle is <<x, y, w, h>>.    *)

RectArea(r) == r[3] * r[4]

Max2(a, b) == IF a >= b THEN a ELSE b
Min2(a, b) == IF a <= b THEN a ELSE b

\* overlap_x * overlap_y of lines 241-243
OverlapArea(a, b) ==
    LET ox == Max2(0, Min2(a[1] + a[3], b[1] + b[3]) - Max2(a[1], b[1]))
        oy == Max2(0, Min2(a[2] + a[4], b[2] + b[4]) - Max2(a[2], b[2]))
    IN  ox * oy

\* overlap_area > 0.3 * min(area1, area2), as 10 * overlap > 3 * min
OverlapNum == 3
OverlapDen == 10

\* the overlap measured against the larger of the two areas
SignificantOfLarger(a, b) ==
    OverlapDen * OverlapArea(a, b) > OverlapNum * Max2(RectArea(a), RectArea(b))

Significant(a, b) ==
    OverlapDen * OverlapArea(a, b) > OverlapNum * Min2(RectArea(a), RectArea(b))

\* the insertion of a sort by increasing area
RECURSIVE InsertByAreaAsc(_, _)
InsertByAreaAsc(r, s) ==
    IF s = <<>> THEN <<r>>
    ELSE IF RectArea(Head(s)) <= RectArea(r)
         THEN <<Head(s)>> \o InsertByAreaAsc(r, Tail(s))
         ELSE <<r>> \o s

\* sorted(candidates, key=area, reverse=True): stable, so rectangles of
\* equal area keep their input order
RECURSIVE InsertByArea(_, _)
InsertByArea(r, s) ==
    IF s = <<>> THEN <<r>>
    ELSE IF RectArea(Head(s)) >= RectArea(r)
         THEN <<Head(s)>> \o InsertByArea(r, Tail(s))
         ELSE <<r>> \o s

\* the candidates left in their input order
InputOrder(s) == s

RECURSIVE SortByAreaDesc(_)
SortByAreaDesc(s) ==
    IF s = <<>> THEN <<>>
    ELSE InsertByArea(s[Len(s)], SortByAreaDesc(SubSeq(s, 1, Len(s) - 1)))

\* the loop of lines 232-254 over the sorted candidates, acc being filtered
RECURSIVE KeepLoop(_, _)
KeepLoop(s, acc) ==
    IF s = <<>> THEN acc
    ELSE IF \E i \in DOMAIN acc : Significant(Head(s), acc[i])
         THEN KeepLoop(Tail(s), acc)
         ELSE KeepLoop(Tail(s), Append(acc, Head(s)))

remove_overlaps(cands) ==
    IF cands = <<>> THEN <<>> ELSE KeepLoop(SortByAreaDesc(cands), <<>>)

MaxRegions == 5

\* the whole list whatever n
Untruncated(s, n) == s

FirstN(s, n) == SubSeq(s, 1, Min2(n, Len(s)))

detect_plates(cands) == FirstN(remove_overlaps(cands), MaxRegions)

\* The rectangles the strategies may report: pairs over, at and under the
\* overlap threshold, equal areas, and disjoint ones.
Rects ==
    { <<0, 0, 100, 30>>,      \* area 3000
      <<10, 0, 100, 30>>,     \* area 3000, overlaps the first by 2700
      <<80, 0, 50, 20>>,      \* area 1000, overlaps the first by 400
      <<0, 0, 100, 33>>,      \* area 3300, overlaps the first by 3000
      <<85, 0, 50, 20>>,      \* area 1000, overlaps the first by 300
      <<90, 0, 50, 20>>,      \* area 1000, overlaps the first by 200
      <<200, 100, 60, 20>>,   \* area 1200, disjoint from the others
      <<0, 100, 120, 40>> }   \* area 4800, disjoint from the others

MaxCands == 4

\* one more candidate from a strategy, then detect_plates on the whole list
AddCandidate(r) ==
    /\ Len(candidates) < MaxCands
    /\ candidates' = Append(candidates, r)
    /\ filtered' = remove_overlaps(candidates')
    /\ kept' = detect_plates(candidates')

\* Rectangles of pairwise different areas that do not intersect: more of
\* them than detect_plates returns.
SpreadRects ==
    { <<0, 0, 100, 30>>,      \* area 3000
      <<0, 100, 120, 40>>,    \* area 4800
      <<200, 100, 60, 20>>,   \* area 1200
      <<200, 0, 80, 25>>,     \* area 2000
      <<300, 0, 90, 30>>,     \* area 2700
      <<300, 100, 70, 20>>,   \* area 1400
      <<400, 0, 110, 40>> }   \* area 4400

MaxSpread == 6

\* the same on the long lists, made of rectangles that do not intersect,
\* each reported once
AddSpread(r) ==
    /\ Len(candidates) < MaxSpread
    /\ r \in SpreadRects \ Range(candidates)
    /\ Range(candidates) \subseteq SpreadRects
    /\ candidates' = Append(candidates, r)
    /\ filtered' = remove_overlaps(candidates')
    /\ kept' = detect_plates(candidates')

-----------------------------------------------------------------------------
(* Text extractor adapter and confidence scorer.  A span is one element of *)
(* reader.readtext's list: its text and its confidence in tenths.          *)

\* the loop taking a span only when its confidence is under 0.9
RECURSIVE SpanLoopCapped(_, _, _)
SpanLoopCapped(spans, best_text, best_conf) ==
    IF spans = <<>> THEN [text |-> best_text, conf |-> best_conf]
    ELSE LET v == validate_plate_text(Head(spans).text)
         IN  IF /\ v.isValid
                /\ Head(spans).conf > best_conf
                /\ Head(spans).conf > 5
                /\ Head(spans).conf < 9
             THEN SpanLoopCapped(Tail(spans), v.display, Head(spans).conf)
             ELSE SpanLoopCapped(Tail(spans), best_text, best_conf)

\* the loop keeping the most confident span whether or not it is valid
RECURSIVE SpanLoopUnvalidated(_, _, _)
SpanLoopUnvalidated(spans, best_text, best_conf) ==
    IF spans = <<>> THEN [text |-> best_text, conf |-> best_conf]
    ELSE LET v == validate_plate_text(Head(spans).text)
         IN  IF Head(spans).conf > best_conf /\ Head(spans).conf > 5
             THEN SpanLoopUnvalidated(Tail(spans), v.display, Head(spans).conf)
             ELSE SpanLoopUnvalidated(Tail(spans), best_text, best_conf)

\* the loop taking a span whose confidence equals the best so far
RECURSIVE SpanLoopLastWins(_, _, _)
SpanLoopLastWins(spans, best_text, best_conf) ==
    IF spans = <<>> THEN [text |-> best_text, conf |-> best_conf]
    ELSE LET v == validate_plate_text(Head(spans).text)
         IN  IF v.isValid /\ Head(spans).conf >= best_conf /\ Head(spans).conf > 5
             THEN SpanLoopLastWins(Tail(spans), v.display, Head(spans).conf)
             ELSE SpanLoopLastWins(Tail(spans), best_text, best_conf)

\* the loop of lines 196-202 of infer_plate_text
RECURSIVE SpanLoop(_, _, _)
SpanLoop(spans, best_text, best_conf) ==
    IF spans = <<>> THEN [text |-> best_text, conf |-> best_conf]
    ELSE LET v == validate_plate_text(Head(spans).text)
         IN  IF v.isValid /\ Head(spans).conf > best_conf /\ Head(spans).conf > 5
             THEN SpanLoop(Tail(spans), v.display, Head(spans).conf)
             ELSE SpanLoop(Tail(spans), best_text, best_conf)

\* infer_plate_text: None is the empty text.  call is what reader.readtext
\* does when called: it raises, or it returns call.spans.
infer_plate_text(loaded, call) ==
    IF ~loaded THEN <<>>
    ELSE IF call.raises THEN <<>>
    ELSE IF call.spans = <<>> THEN <<>>
    ELSE LET b == SpanLoop(call.spans, <<>>, 0)
         IN  IF b.text # <<>> /\ b.conf > 5 THEN b.text ELSE <<>>

\* the score with a base term of 0.7 and without the clamp
estimate_plate_confidence_unclamped(t, region_area) ==
    IF t = <<>> THEN 0
    ELSE LET has_letters == \E k \in DOMAIN t : t[k] \in UpperLatin
             has_numbers == \E k \in DOMAIN t : t[k] \in Digits
         IN  7 + (IF 4 <= Len(t) /\ Len(t) <= 8 THEN 2 ELSE 0)
               + (IF has_letters /\ has_numbers THEN 2 ELSE 0)
               + (IF region_area > 2000 THEN 1 ELSE 0)

\* estimate_plate_confidence, in tenths
estimate_plate_confidence(t, region_area) ==
    IF t = <<>> THEN 0
    ELSE LET has_letters == \E k \in DOMAIN t : t[k] \in UpperLatin
             has_numbers == \E k \in DOMAIN t : t[k] \in Digits
         IN  Min2(5 + (IF 4 <= Len(t) /\ Len(t) <= 8 THEN 2 ELSE 0)
                    + (IF has_letters /\ has_numbers THEN 2 ELSE 0)
                    + (IF region_area > 2000 THEN 1 ELSE 0),
                  10)

\* lines 341-345 of detect_and_recognize_plate on one region: the text
\* infer_plate_text extracts from the spans the backend returned, and the
\* score of that text (0 when there is none)
RegionScore(spans, area) ==
    LET t == infer_plate_text(TRUE, [answers |-> TRUE, raises |-> FALSE,
                                     spans |-> spans])
    IN  [text |-> t, score |-> estimate_plate_confidence(t, area)]

TextLong == <<"A", "B", "C", "D", "E", "F", "G", "H", "2">>

\* the texts of the spans of one region, in the order the backend returns
\* them
ScoreTextLists ==
    { << <<"a", "b", "h", "2", "4", "1", "1">> >>,
      << <<"X">> >>,
      << <<"A", "B", " ", "2", "3", "4", "5", " ", "C", "D">> >>,
      << TextLong >>,
      << <<"A", "C", "2", "3", "4", "5">>, TextLong >>,
      << TextLong, <<"A", "C", "2", "3", "4", "5">> >>,
      << <<"X">>, <<"A", "C", "2", "3", "4", "5">> >> }

Confidences == 0 .. 10

\* region areas under, at and over the 2000 of line 407
ScoreAreas == {1000, 2000, 2001, 4800}

\* the spans of texts ts, the first with confidence c1 and the others with
\* confidence c2
RECURSIVE SpansOf(_, _, _)
SpansOf(ts, c1, c2) ==
    IF ts = <<>> THEN <<>>
    ELSE <<[text |-> Head(ts), conf |-> c1]>> \o SpansOf(Tail(ts), c2, c2)

NoScoreIn == [texts |-> <<>>, conf |-> 0, rest |-> 0, area |-> 0]

\* one region is read and scored: the backend reports the first text with
\* confidence c and the others with confidence rest
ScoreRegion(ts, c, rest, area) ==
    /\ scoreIn = NoScoreIn
    /\ ts \in ScoreTextLists
    /\ c \in Confidences
    /\ rest \in Confidences
    /\ area \in ScoreAreas
    /\ Len(ts) = 1 => rest = 0
    /\ scoreIn' = [texts |-> ts, conf |-> c, rest |-> rest, area |-> area]
    /\ scoreOut' = RegionScore(SpansOf(ts, c, rest), area)

-----------------------------------------------------------------------------
(* The orchestrator detect_and_recognize_plate and process_plate_image.    *)

NoResult == [kind |-> "none", error |-> "", plate |-> <<>>,
             confidence |-> 0, region |-> <<>>]

Failure(msg) == [kind |-> "failure", error |-> msg, plate |-> <<>>,
                 confidence |-> 0, region |-> <<>>]

Success(t, c, r) == [kind |-> "success", error |-> "", plate |-> t,
                     confidence |-> c, region |-> r]

NoPpi == [success |-> FALSE, plate_number |-> <<>>, method |-> "none"]

\* before a repeated call there is no first call to compare with
NoFirst == [result |-> NoResult, tiers |-> <<>>, tried |-> <<>>]

\* the fallback tiers run whatever the earlier tiers found
FallbackAlways(regs) == TRUE

\* "if not regions": the next tier is tried
FallbackNeeded(regs) == regs = <<>>

\* a later region of equal score replaces the best so far
BetterOrEqual(c, best) == c >= best

\* "if confidence > best_confidence": the region replaces the best so far
BetterThan(c, best) == c > best

TextABH == <<"a", "b", "h", "2", "4", "1", "1">>
TextX == <<"X">>
TextSpaced == <<"A", "B", " ", "2", "3", "4", "5", " ", "C", "D">>
TextAC == <<"A", "C", "2", "3", "4", "5">>

Span(t, c) == [text |-> t, conf |-> c]
Returns(sp) == [answers |-> TRUE, raises |-> FALSE, spans |-> sp]
Raises == [answers |-> TRUE, raises |-> TRUE, spans |-> <<>>]

\* reader.readtext does not come back: line 186 calls it without a timeout
NoAnswer == [answers |-> FALSE, raises |-> FALSE, spans |-> <<>>]

\* what one call of reader.readtext may return when it does not raise
ReadtextResults ==
    { <<>>,
      <<Span(TextABH, 9)>>,
      <<Span(TextABH, 5)>>,
      <<Span(TextX, 9)>>,
      <<Span(TextSpaced, 9)>>,
      <<Span(TextX, 9), Span(TextSpaced, 6), Span(TextABH, 9)>>,
      <<Span(TextAC, 6), Span(TextABH, 6)>> }

\* what the stubbed backend of a repeated run may answer
StubResults ==
    { <<Span(TextABH, 9)>>,
      <<Span(TextX, 9), Span(TextSpaced, 6), Span(TextABH, 9)>> }

ReadtextCalls(b) ==
    IF b = "throwing" THEN {Raises}
    ELSE IF b = "stub" THEN {Raises} \cup {Returns(sp) : sp \in StubResults}
    ELSE {Raises, NoAnswer} \cup {Returns(sp) : sp \in ReadtextResults}

Backends == {"working", "unloadable", "throwing", "not_installed"}

Images == {"array", "base64", "undecodable", "none", "not_array"}

\* what the four strategies of the universal detector may report together
UniversalCandidates ==
    { <<>>,
      << <<0, 0, 100, 30>> >>,
      << <<0, 0, 100, 30>>, <<10, 0, 100, 30>> >>,
      << <<200, 100, 60, 20>>, <<0, 0, 100, 30>> >>,
      << <<0, 0, 100, 30>>, <<0, 100, 120, 40>> >>,
      << <<90, 0, 50, 20>>, <<0, 0, 100, 30>>, <<200, 100, 60, 20>> >> }

\* what detectMultiScale may report
CascadeRegions ==
    { <<>>,
      << <<10, 0, 100, 30>> >>,
      << <<200, 100, 60, 20>>, <<0, 100, 120, 40>> >> }

\* what detect_plate_regions_contour may report
ContourRegions ==
    { <<>>,
      << <<0, 100, 120, 40>> >>,
      << <<0, 0, 100, 30>>, <<200, 100, 60, 20>> >> }

\* the plates the simulation of process_plate_image may draw
SimulatedPlates ==
    { <<"A", "B", "U00B7", "1", "2", "3", "C", "D">>,
      <<"A", "B", "C", "1", "2", "3">> }

\* a deterministic collaborator asked the same question in the second of two
\* runs answers as it did in the first: tier number i reports the regions
\* it reported then, and a region is enhanced and read as it was then
SameAsFirstTier(i, out) ==
    (run = 2 /\ i <= Len(first.tiers)) => out = first.tiers[i].out

SameAsFirstRegion(r, roi, call) ==
    run = 2 =>
        \A k \in DOMAIN first.tried :
            first.tried[k].region = r =>
                roi = first.tried[k].roi /\ call = first.tried[k].call

\* process_plate_image, lines 43-65: the base64 payload is decoded and the
\* detector called with the array; a payload that does not decode ends in
\* the outer except
CallProcessPlateImage(decodes) ==
    /\ pc = "idle"
    /\ caller' = "process_plate_image"
    /\ IF decodes
       THEN /\ image' = "array"
            /\ pc' = "load"
            /\ ppi' = ppi
       ELSE /\ image' = "undecodable"
            /\ pc' = "ppi_done"
            /\ ppi' = [success |-> FALSE, plate_number |-> <<>>,
                       method |-> "error"]
    /\ elapsed' = 0
    /\ UNCHANGED <<backend, regions, idx, best_result, best_confidence,
                   result, tiers, tried, ocrCalls, best_time,
                   processing_time, run, first>>

\* detect_and_recognize_plate called by another caller; line 246 takes
\* start_time
CallDetect(img) ==
    /\ pc = "idle"
    /\ caller' = "direct"
    /\ image' = img
    /\ pc' = "load"
    /\ elapsed' = 0
    /\ UNCHANGED <<backend, regions, idx, best_result, best_confidence,
                   result, ppi, tiers, tried, ocrCalls, best_time,
                   processing_time, run, first>>

\* lines 248-268: the imports and load_model
LoadModel ==
    /\ pc = "load"
    /\ elapsed' = elapsed + 1
    /\ IF backend = "not_installed"
       THEN /\ result' = Failure("Detection failed")
            /\ processing_time' = elapsed'
            /\ pc' = "returned"
       ELSE IF backend = "unloadable"
       THEN /\ result' = Failure("OCR model not available")
            /\ processing_time' = elapsed'
            /\ pc' = "returned"
       ELSE /\ UNCHANGED <<result, processing_time>>
            /\ pc' = "input"
    /\ UNCHANGED <<caller, image, backend, regions, idx, best_result,
                   best_confidence, ppi, tiers, tried, ocrCalls, best_time,
                   run, first>>

\* the input handling without the outer except: the exception of line
\* 296 reaches the caller
HandleInputUncaught ==
    /\ pc = "input"
    /\ elapsed' = elapsed + 1
    /\ IF image = "undecodable"
       THEN /\ result' = Failure("Preprocessing failed")
            /\ processing_time' = elapsed'
            /\ pc' = "returned"
       ELSE IF image = "none"
       THEN /\ result' = Failure("Image processing failed")
            /\ processing_time' = elapsed'
            /\ pc' = "returned"
       ELSE IF image = "not_array"
       THEN /\ UNCHANGED <<result, processing_time>>
            /\ pc' = "raised"
       ELSE /\ UNCHANGED <<result, processing_time>>
            /\ pc' = "universal"
    /\ UNCHANGED <<caller, image, backend, regions, idx, best_result,
                   best_confidence, ppi, tiers, tried, ocrCalls, best_time,
                   run, first>>

\* lines 270-297: the input is decoded when it is a string; an input that
\* is neither a string nor an array has no shape (line 296) and ends in the
\* outer except
HandleInput ==
    /\ pc = "input"
    /\ elapsed' = elapsed + 1
    /\ IF image = "undecodable"
       THEN /\ result' = Failure("Preprocessing failed")
            /\ processing_time' = elapsed'
            /\ pc' = "returned"
       ELSE IF image = "none"
       THEN /\ result' = Failure("Image processing failed")
            /\ processing_time' = elapsed'
            /\ pc' = "returned"
       ELSE IF image = "not_array"
       THEN /\ result' = Failure("Detection failed")
            /\ processing_time' = elapsed'
            /\ pc' = "returned"
       ELSE /\ UNCHANGED <<result, processing_time>>
            /\ pc' = "universal"
    /\ UNCHANGED <<caller, image, backend, regions, idx, best_result,
                   best_confidence, ppi, tiers, tried, ocrCalls, best_time,
                   run, first>>

Tier(name, out) == [tier |-> name, out |-> out]

\* lines 299-301: the universal multi-strategy detector
TierUniversal(cands) ==
    /\ pc = "universal"
    /\ regions' = detect_plates(cands)
    /\ SameAsFirstTier(1, regions')
    /\ tiers' = Append(tiers, Tier("UNIVERSAL", regions'))
    /\ pc' = "cascade"
    /\ elapsed' = elapsed + 1
    /\ UNCHANGED <<caller, image, backend, idx, best_result,
                   best_confidence, result, ppi, tried, ocrCalls, best_time,
                   processing_time, run, first>>

\* lines 303-306: the cascade classifier, when nothing was found so far
TierCascade(out) ==
    /\ pc = "cascade"
    /\ IF FallbackNeeded(regions)
       THEN /\ SameAsFirstTier(2, out)
            /\ regions' = out
            /\ tiers' = Append(tiers, Tier("CLASSIFIER", out))
       ELSE /\ out = <<>>
            /\ UNCHANGED <<regions, tiers>>
    /\ pc' = "contour"
    /\ elapsed' = elapsed + 1
    /\ UNCHANGED <<caller, image, backend, idx, best_result,
                   best_confidence, result, ppi, tried, ocrCalls, best_time,
                   processing_time, run, first>>

\* lines 308-321: the contour generator, when nothing was found so far,
\* and the return when no tier found a region
TierContour(out) ==
    /\ pc = "contour"
    /\ IF FallbackNeeded(regions)
       THEN /\ SameAsFirstTier(3, out)
            /\ regions' = out
            /\ tiers' = Append(tiers, Tier("CONTOUR", out))
       ELSE /\ out = <<>>
            /\ UNCHANGED <<regions, tiers>>
    /\ elapsed' = elapsed + 1
    /\ IF regions' = <<>>
       THEN /\ result' = Failure("No license plate detected")
            /\ processing_time' = elapsed'
            /\ pc' = "returned"
       ELSE /\ UNCHANGED <<result, processing_time>>
            /\ pc' = "regions"
    /\ UNCHANGED <<caller, image, backend, idx, best_result,
                   best_confidence, ppi, tried, ocrCalls, best_time,
                   run, first>>

\* what lines 333-334 may do on one region: the ROI is cut out and
\* enhanced; enhance_plate_roi raises inside, catches it and returns the
\* ROI it was given (lines 238-240); or the loop body itself raises before
\* the OCR call and the except of line 362 skips the region
RoiOutcomes == {"enhanced", "enhance_raised", "roi_raised"}

\* the call recorded for a region whose OCR call was not made
NotCalled == Returns(<<>>)

\* lines 330-365: one iteration of the per-region loop.  A call of
\* reader.readtext that never answers leaves the control inside
\* infer_plate_text, line 186.
ProcessRegion(roi, call) ==
    /\ pc = "regions"
    /\ idx <= Len(regions)
    /\ roi \in RoiOutcomes
    /\ SameAsFirstRegion(regions[idx], roi, call)
    /\ elapsed' = elapsed + 1
    /\ IF roi = "roi_raised"
       THEN /\ call = NotCalled
            /\ tried' = Append(tried, [region |-> regions[idx], roi |-> roi,
                                       called |-> FALSE, call |-> call,
                                       text |-> <<>>, score |-> 0])
            /\ idx' = idx + 1
            /\ UNCHANGED <<pc, best_result, best_confidence, best_time,
                           ocrCalls>>
       ELSE IF call = NoAnswer
       THEN /\ call \in ReadtextCalls(backend)
            /\ pc' = "in_readtext"
            /\ ocrCalls' = ocrCalls + 1
            /\ UNCHANGED <<idx, tried, best_result, best_confidence,
                           best_time>>
       ELSE /\ call \in ReadtextCalls(backend)
            /\ LET r == regions[idx]
                   detected_text == infer_plate_text(TRUE, call)
                   confidence ==
                       estimate_plate_confidence(detected_text, r[3] * r[4])
               IN  /\ IF /\ detected_text # <<>>
                         /\ BetterThan(confidence, best_confidence)
                      THEN /\ best_result' =
                                  Success(detected_text, confidence, r)
                           /\ best_confidence' = confidence
                           /\ best_time' = elapsed'
                      ELSE UNCHANGED <<best_result, best_confidence,
                                       best_time>>
                   /\ tried' = Append(tried,
                                      [region |-> r, roi |-> roi,
                                       called |-> TRUE, call |-> call,
                                       text |-> detected_text,
                                       score |-> confidence])
            /\ ocrCalls' = ocrCalls + 1
            /\ idx' = idx + 1
            /\ pc' = pc
    /\ UNCHANGED <<caller, image, backend, regions, result, ppi, tiers,
                   processing_time, run, first>>

\* lines 367-376: the best result, or the failure when there is none
Select ==
    /\ pc = "regions"
    /\ idx > Len(regions)
    /\ elapsed' = elapsed + 1
    /\ IF best_result # NoResult
       THEN /\ result' = best_result
            /\ processing_time' = best_time
       ELSE /\ result' = Failure("No valid license plate text detected")
            /\ processing_time' = elapsed'
    /\ pc' = "returned"
    /\ UNCHANGED <<caller, image, backend, regions, idx, best_result,
                   best_confidence, ppi, tiers, tried, ocrCalls, best_time,
                   run, first>>

\* process_plate_image, lines 67-130: the detector's plate when it has one
\* with a confidence above 0.1, a simulated plate otherwise
FinishProcessPlateImage(sim) ==
    /\ pc = "returned"
    /\ caller = "process_plate_image"
    /\ IF result.plate # <<>> /\ result.confidence > 1
       THEN /\ sim = result.plate
            /\ ppi' = [success |-> TRUE, plate_number |-> result.plate,
                       method |-> "opencv_real"]
       ELSE /\ sim \in SimulatedPlates
            /\ ppi' = [success |-> TRUE, plate_number |-> sim,
                       method |-> "simulation"]
    /\ pc' = "ppi_done"
    /\ UNCHANGED <<caller, image, backend, regions, idx, best_result,
                   best_confidence, result, tiers, tried, ocrCalls, elapsed,
                   best_time, processing_time, run, first>>

\* a second call on the same image keeping the best score of the first
RerunKeepingBest ==
    /\ pc = "returned"
    /\ caller = "direct"
    /\ run = 1
    /\ first' = [result |-> result, tiers |-> tiers, tried |-> tried]
    /\ run' = 2
    /\ pc' = "load"
    /\ regions' = <<>>
    /\ idx' = 1
    /\ best_result' = NoResult
    /\ best_confidence' = best_confidence
    /\ result' = NoResult
    /\ tiers' = <<>>
    /\ tried' = <<>>
    /\ ocrCalls' = 0
    /\ elapsed' = 0
    /\ best_time' = -1
    /\ processing_time' = -1
    /\ UNCHANGED <<caller, image, backend, ppi>>

\* detect_and_recognize_plate called a second time on the same image: the
\* locals of lines 246-257 and 326-327 are those of the new call, and
\* load_model builds a new PlateOCRModel
Rerun ==
    /\ pc = "returned"
    /\ caller = "direct"
    /\ run = 1
    /\ first' = [result |-> result, tiers |-> tiers, tried |-> tried]
    /\ run' = 2
    /\ pc' = "load"
    /\ regions' = <<>>
    /\ idx' = 1
    /\ best_result' = NoResult
    /\ best_confidence' = 0
    /\ result' = NoResult
    /\ tiers' = <<>>
    /\ tried' = <<>>
    /\ ocrCalls' = 0
    /\ elapsed' = 0
    /\ best_time' = -1
    /\ processing_time' = -1
    /\ UNCHANGED <<caller, image, backend, ppi>>

-----------------------------------------------------------------------------
(* The arrays of one call of detect_and_recognize_plate on an array input. *)
(* An array is named by the storage it uses: "input" is the caller's       *)
(* buffer or a numpy view of it, "fresh" is storage allocated during the   *)
(* call.                                                                   *)

NPix == 2
PixVals == 0 .. 1
Pixels == [1 .. NPix -> PixVals]
MaxFrameRegions == 2

NoArrays == [roi |-> "none", enhanced_roi |-> "none", processed_roi |-> "none"]

\* an OpenCV function given its destination: the operation is done in
\* place, in the storage of its source
SameArray(src) == src

\* cv2.cvtColor, Canny, GaussianBlur, bitwise_or, morphologyEx, inRange,
\* adaptiveThreshold, resize, CLAHE.apply, bilateralFilter, filter2D, dilate
\* called without a destination, and ndarray.copy(): the result is a newly
\* allocated array
NewArray(src) == "fresh"

\* the caller's buffer after px was stored in array a
Store(a, px) == IF a = "input" THEN px ELSE input

\* universal_detector.py lines 26, 81, 165: a grayscale image is used as it
\* is, a colour image is converted
StrategyGray == IF colour THEN NewArray("input") ELSE "input"

\* universal_detector.py lines 209-222: the next of the four strategies
\* works on the image; detect_by_color_filtering returns at line 121 for a
\* grayscale image. A strategy that raises has stored what it computed
\* before.
FrameStrategy(px) ==
    /\ fpc = "strategies"
    /\ input' = IF fstrategy = 3 /\ ~colour
                THEN input
                ELSE Store(NewArray(StrategyGray), px)
    /\ fstrategy' = fstrategy + 1
    /\ fpc' = IF fstrategy = 4 THEN "tiers" ELSE "strategies"
    /\ UNCHANGED <<input0, colour, fregion, arrays>>

\* detector.py lines 125-166 and 31-123: the cascade and the contour tier
\* work on cvtColor(image) or image.copy()
FrameFallback(px) ==
    /\ fpc = "tiers"
    /\ input' = Store(NewArray("input"), px)
    /\ fpc' \in {"tiers", "crop", "returned"}
    /\ UNCHANGED <<input0, colour, fstrategy, fregion, arrays>>

\* detector.py lines 304-326: the regions are known, or there are none
FrameRegions ==
    /\ fpc = "tiers"
    /\ fpc' \in {"crop", "returned"}
    /\ UNCHANGED <<input0, input, colour, fstrategy, fregion, arrays>>

\* detector.py line 334: roi is a slice of original_image, a view of it
FrameCrop ==
    /\ fpc = "crop"
    /\ fregion < MaxFrameRegions
    /\ arrays' = [NoArrays EXCEPT !.roi = "input"]
    /\ fregion' = fregion + 1
    /\ fpc' = "enhance"
    /\ UNCHANGED <<input0, input, colour, fstrategy>>

\* detector.py lines 211-240: enhance_plate_roi works on cvtColor(roi) or
\* roi.copy() and returns the blurred array, or roi itself when it raised
FrameEnhance(raised, px) ==
    /\ fpc = "enhance"
    /\ input' = Store(NewArray(arrays.roi), px)
    /\ arrays' = [arrays EXCEPT !.enhanced_roi =
                      IF raised THEN arrays.roi ELSE NewArray(arrays.roi)]
    /\ fpc' = "preprocess"
    /\ UNCHANGED <<input0, colour, fstrategy, fregion>>

\* ocr_model.py lines 179-183 and 28-75: infer_plate_text slices the
\* enhanced array (a view of it) and preprocess_roi works on cvtColor or a
\* copy of the slice; it returns the processed array, or the slice itself
\* when it raised
FramePreprocess(raised, px) ==
    /\ fpc = "preprocess"
    /\ input' = Store(NewArray(arrays.enhanced_roi), px)
    /\ arrays' = [arrays EXCEPT !.processed_roi =
                      IF raised THEN arrays.enhanced_roi
                      ELSE NewArray(arrays.enhanced_roi)]
    /\ fpc' = "readtext"
    /\ UNCHANGED <<input0, colour, fstrategy, fregion>>

\* ocr_model.py line 186: reader.readtext reads processed_roi; the loop of
\* detector.py line 330 goes to the next region or the function returns
FrameReadtext ==
    /\ fpc = "readtext"
    /\ fpc' \in {"crop", "returned"}
    /\ UNCHANGED <<input0, input, colour, fstrategy, fregion, arrays>>

\* detector.py line 330: the loop has no region left
FrameReturn ==
    /\ fpc = "crop"
    /\ fpc' = "returned"
    /\ UNCHANGED <<input0, input, colour, fstrategy, fregion, arrays>>

-----------------------------------------------------------------------------
(* The candidate generators: the four strategies run by detect_plates and  *)
(* the cascade and contour tiers.                                          *)

\* what a generator may find
StrategyLists ==
    { <<>>,
      << <<0, 0, 100, 30>> >>,
      << <<10, 0, 100, 30>> >>,
      << <<200, 100, 60, 20>> >>,
      << <<0, 100, 120, 40>>, <<80, 0, 50, 20>> >> }

NumStrategies == 4

\* a generator without its try/except: an internal failure reaches the
\* caller
RunStrategyUncaught(fails, out) ==
    [raised |-> fails, value |-> IF fails THEN <<>> ELSE out]

\* universal_detector.py lines 22-76, 78-115, 117-160, 162-207 and
\* detector.py lines 31-123, 125-166: the body of each generator is inside
\* try/except Exception, whose handler returns []
RunStrategy(fails, out) ==
    [raised |-> FALSE, value |-> IF fails THEN <<>> ELSE out]

\* universal_detector.py lines 213-218: the next strategy is called; its
\* candidates extend all_candidates, an exception is logged
RunNextStrategy(fails, out) ==
    /\ dpc = "strategies"
    /\ strategy <= NumStrategies
    /\ LET o == RunStrategy(fails, out)
       IN  /\ outcomes' = Append(outcomes,
                  [failed |-> fails, raised |-> o.raised, value |-> o.value])
           /\ candidates' = IF o.raised THEN candidates
                            ELSE candidates \o o.value
    /\ strategy' = strategy + 1
    /\ UNCHANGED <<dpc, filtered, kept>>

\* universal_detector.py lines 220-222: the candidates are deduplicated and
\* the first five returned
FinishDetectPlates ==
    /\ dpc = "strategies"
    /\ strategy > NumStrategies
    /\ filtered' = remove_overlaps(candidates)
    /\ kept' = detect_plates(candidates)
    /\ dpc' = "universal_done"
    /\ UNCHANGED <<candidates, strategy, outcomes>>

\* detector.py lines 304-311: with no region yet, the cascade tier and then
\* the contour tier are called
RunFallback(fails, out) ==
    /\ dpc \in {"universal_done", "cascade_done"}
    /\ kept = <<>>
    /\ dpc = "cascade_done" => outcomes[Len(outcomes)].value = <<>>
    /\ LET o == RunStrategy(fails, out)
       IN  outcomes' = Append(outcomes,
               [failed |-> fails, raised |-> o.raised, value |-> o.value])
    /\ dpc' = IF dpc = "universal_done" THEN "cascade_done" ELSE "contour_done"
    /\ UNCHANGED <<candidates, filtered, kept, strategy>>

-----------------------------------------------------------------------------
(* infer_plate_text seen from its caller: whether the call raised, and the *)
(* text it returned.                                                       *)

\* infer_plate_text without the try/except of lines 178-213: an exception
\* of reader.readtext reaches the caller
infer_outcome_uncaught(loaded, call) ==
    [raised |-> loaded /\ call.raises, text |-> infer_plate_text(loaded, call)]

\* ocr_model.py lines 167-213: the guard of lines 174-176 returns None, and
\* everything after it is inside try/except Exception returning None
infer_outcome(loaded, call) ==
    [raised |-> FALSE, text |-> infer_plate_text(loaded, call)]

MaxInferRegions == 2

\* what reader.readtext may do in one call that comes back
InferCalls == {Raises} \cup {Returns(sp) : sp \in ReadtextResults}

\* a loop over regions calls infer_plate_text for the next region; an
\* exception leaving the call ends the loop
InferRegion(loaded, call) ==
    /\ ipc = "loop"
    /\ Len(inferLog) < MaxInferRegions
    /\ LET o == infer_outcome(loaded, call)
       IN  /\ inferLog' = Append(inferLog,
                  [loaded |-> loaded, call |-> call,
                   raised |-> o.raised, text |-> o.text])
           /\ ipc' = IF o.raised THEN "raised" ELSE "loop"

\* the spans a backend may report for one region
SpanTexts == {TextABH, TextX, TextAC}
SpanConfs == {5, 6, 9}
MaxSpans == 3

RECURSIVE SpanLists(_)
SpanLists(n) ==
    IF n = 0 THEN {<<>>}
    ELSE LET shorter == SpanLists(n - 1)
         IN  shorter \cup
             { Append(sp, Span(t, c)) :
                 sp \in {l \in shorter : Len(l) = n - 1},
                 t \in SpanTexts, c \in SpanConfs }

\* one call of infer_plate_text with a loaded model whose backend returns
\* the list sp
InferSpans(sp) ==
    /\ ipc = "once"
    /\ LET o == infer_outcome(TRUE, Returns(sp))
       IN  inferLog' = Append(inferLog,
               [loaded |-> TRUE, call |-> Returns(sp),
                raised |-> o.raised, text |-> o.text])
    /\ ipc' = "called"

-----------------------------------------------------------------------------
(* preprocess_image (anpr/preprocess.py).  img_data is described by its    *)
(* type, its number of bytes, whether the bytes are an image cv2.imdecode  *)
(* can decode, and the size of that image.  A dict is a function from its  *)
(* keys.                                                                   *)

MaxBytes == 15
ResizeWidth == 1200
ImageWidths == {800, 1200, 2400}
ImageHeight == 600

NoPreIn == [kind |-> "none", size |-> 0, decodes |-> FALSE, width |-> 0]
NoPreOut == [called |-> FALSE, raised |-> FALSE, dict |-> <<>>]

PreInputs ==
    { [kind |-> k, size |-> n, decodes |-> d, width |-> w] :
        k \in {"bytes", "str", "data_url"}, n \in 0 .. MaxBytes,
        d \in BOOLEAN, w \in ImageWidths \cup {0} }

\* lines 14-67: the bytes are decoded, resized when wider than 1200,
\* converted and thresholded; the except clause turns any failure, the
\* ValueError of line 29 included, into the dict of lines 64-67
preprocess_image(in) ==
    IF ~in.decodes
    THEN [error |-> "Preprocessing failed", processed |-> "None"]
    ELSE LET scaled == in.width > ResizeWidth
             new_width == IF scaled THEN ResizeWidth ELSE in.width
             new_height == IF scaled
                           THEN (ImageHeight * ResizeWidth) \div in.width
                           ELSE ImageHeight
         IN  [original |-> "img", gray |-> "gray", processed |-> "cleaned",
              width |-> new_width, height |-> new_height]

\* one call of preprocess_image; bytes that decode are at least one byte
\* and have a width
PreprocessImage(in) ==
    /\ preIn = NoPreIn
    /\ in.decodes <=> in.width > 0
    /\ in.decodes => in.size > 0
    /\ preIn' = in
    /\ preOut' = [called |-> TRUE, raised |-> FALSE, dict |-> preprocess_image(in)]

-----------------------------------------------------------------------------
(* Payments (payments/transactions.py).  A dict is a function from its     *)
(* keys; amounts are whole dollars; None is "None".                        *)

MaxLog == 3
TollAmount == 2
Balances == {0, 5}
FundingBuffer == 10

\* the plate of iteration i, line 203: f"AB·712{i:02d}CD"
PlateOf(i) ==
    <<"A", "B", "U00B7", "7", "1", "2">>
        \o <<ToString((i \div 10) % 10), ToString(i % 10)>> \o <<"C", "D">>

\* the dict of the except clause without its 'status' entry
ErrorResultNoStatus(message) ==
    [success |-> FALSE, message |-> message,
     transaction_data |-> "None", audit_hash |-> "None",
     payment_method |-> "ACCOUNT_BALANCE", reference |-> "None",
     balance |-> "None", processing_time |-> 0]

\* lines 27-37 and 184-195: the dict returned for a plate that is not
\* registered and the one returned by the except clause
ErrorResult(message) ==
    [success |-> FALSE, message |-> message, status |-> "ERROR",
     transaction_data |-> "None", audit_hash |-> "None",
     payment_method |-> "ACCOUNT_BALANCE", reference |-> "None",
     balance |-> "None", processing_time |-> 0]

\* where a call of process_payment may fail: nowhere, before anything is
\* written (the imports, the queries), or after the new balance was saved
\* (append_audit, the Paynow request)
PayFailures == {"none", "before_save", "after_save"}

\* the phone number of the user by its prefix, lines 112-117
Phones == {"None", "071", "077"}

\* process_payment, lines 11-196, for the account acct: the dict returned
\* and the balance left in the database
process_payment(acct, amount, failure, phone, paynow) ==
    IF failure = "before_save"
    THEN [result |-> ErrorResult("Payment processing error"),
          balance |-> acct.balance, path |-> "exception"]
    ELSE IF ~acct.registered
    THEN [result |-> ErrorResult("not registered"),
          balance |-> acct.balance, path |-> "unregistered"]
    ELSE IF failure = "after_save"
    THEN [result |-> ErrorResult("Payment processing error"),
          balance |-> acct.balance - amount, path |-> "exception"]
    ELSE IF acct.balance >= amount
    THEN [result |->
              [success |-> TRUE, message |-> "processed",
               payment_method |-> "ACCOUNT_BALANCE", reference |-> "hash",
               balance |-> acct.balance - amount, processing_time |-> 0,
               status |-> "SUCCESS", transaction_data |-> "data",
               audit_hash |-> "hash"],
          balance |-> acct.balance - amount, path |-> "sufficient"]
    ELSE LET new_balance == acct.balance - amount
             funding_amount == IF new_balance < 0
                               THEN FundingBuffer - new_balance
                               ELSE FundingBuffer
         IN  [result |->
                  [success |-> TRUE, message |-> "processed",
                   payment_method |-> "ACCOUNT_BALANCE", reference |-> "hash",
                   balance |-> new_balance, processing_time |-> 0,
                   status |-> "SUCCESS", transaction_data |-> "data",
                   audit_hash |-> "hash", requires_funding |-> TRUE,
                   funding_amount |-> funding_amount,
                   phone_number |-> phone,
                   payment_provider |->
                       IF phone = "071" THEN "ONEMONEY" ELSE "ECOCASH",
                   paynow_initiated |-> phone # "None" /\ paynow,
                   paynow_reference |->
                       IF phone # "None" /\ paynow THEN "ref" ELSE "None"],
              balance |-> new_balance, path |-> "insufficient"]

\* simulate_transaction_log lines 202-214: one iteration of the loop; the
\* lookup result['status'] raises KeyError when the key is missing
SimulateStep(failure, phone, paynow) ==
    /\ paypc = "loop"
    /\ payI < payN
    /\ LET r == process_payment(accounts[payI + 1], TollAmount, failure, phone, paynow)
       IN  /\ accounts' = [accounts EXCEPT ![payI + 1].balance = r.balance]
           /\ payPaths' = Append(payPaths, r.path)
           /\ IF "status" \in DOMAIN r.result
              THEN /\ payOut' = Append(payOut,
                          [plate |-> PlateOf(payI), timestamp |-> "utcnow",
                           amount |-> TollAmount, payment_method |-> "EcoCash",
                           status |-> r.result["status"],
                           audit_hash |-> IF "audit_hash" \in DOMAIN r.result
                                          THEN r.result["audit_hash"] ELSE ""])
                   /\ payI' = payI + 1
                   /\ paypc' = "loop"
              ELSE /\ paypc' = "raised"
                   /\ UNCHANGED <<payOut, payI>>
    /\ UNCHANGED payN

\* line 215: range(n) is exhausted and out is returned
SimulateReturn ==
    /\ paypc = "loop"
    /\ payI >= payN
    /\ paypc' = "returned"
    /\ UNCHANGED <<payN, payI, payOut, accounts, payPaths>>

-----------------------------------------------------------------------------
(* validate_international_plate (anpr/lightweight_processor.py).           *)

\* the character classes of its patterns: [-\s], [A-Z0-9], [·\s\-], a CJK
\* ideograph and a kana
Separator == Hyphen \cup Whitespace
AlphaNumeric == UpperLatin \cup Digits
ZimSeparator == {"U00B7"} \cup Whitespace \cup Hyphen
Ideograph == {"U4EAC"}
Kana == {"U3042"}

\* the repeat count standing for "+"
Unbounded == 64

Run(class, lo, hi) == [class |-> class, min |-> lo, max |-> hi]
Sep == Run(Separator, 0, 1)

\* the dict of lines 161-175, in its order
intl_patterns ==
    << [name |-> "EU_STANDARD",  pat |-> <<L(1,3), Sep, D(1,4), Sep, L(1,3)>>],
       [name |-> "US_STANDARD",  pat |-> <<Run(AlphaNumeric, 2, 3), Sep, D(3,4)>>],
       [name |-> "UK_STANDARD",  pat |-> <<L(2,2), D(2,2), Sep, L(3,3)>>],
       [name |-> "CANADA",       pat |-> <<L(3,3), Sep, D(3,3)>>],
       [name |-> "AUSTRALIA",    pat |-> <<L(3,3), Sep, D(3,3)>>],
       [name |-> "BRAZIL",       pat |-> <<L(3,3), Sep, D(4,4)>>],
       [name |-> "INDIA",        pat |-> <<L(2,2), Sep, D(2,2), Sep, L(2,2), Sep, D(4,4)>>],
       [name |-> "CHINA",        pat |-> <<Run(Ideograph, 1, 1), L(1,1), D(5,5)>>],
       [name |-> "JAPAN",        pat |-> <<Run(Kana, 1, Unbounded), D(3,3)>>],
       [name |-> "RUSSIA",       pat |-> <<L(1,1), D(3,3), L(2,2), D(2,3)>>],
       [name |-> "ZIMBABWE",     pat |-> <<L(2,3), Run(ZimSeparator, 0, 1), D(3,4), L(0,2)>>],
       [name |-> "SOUTH_AFRICA", pat |-> <<L(2,3), Sep, D(2,4), Sep, L(2,2)>>],
       [name |-> "GENERIC",      pat |-> <<Run(AlphaNumeric, 4, 8)>>] >>

\* the loop of lines 178-187: the first pattern that matches from p on, 0
\* when none does
RECURSIVE IntlFirstMatchFrom(_, _)
IntlFirstMatchFrom(s, p) ==
    IF p > Len(intl_patterns) THEN 0
    ELSE IF ReMatch(intl_patterns[p].pat, s) THEN p
    ELSE IntlFirstMatchFrom(s, p + 1)

\* str.isalnum() of one character
IsAlnum(c) == c \in AlphaNumeric \cup Range(LowerSeq) \cup Ideograph \cup Kana

MinFallbackLen == 4
MaxFallbackLen == 10

\* line 190: no pattern matched but the text "has reasonable format"
FallbackAccepts(clean_text) ==
    /\ MinFallbackLen <= Len(clean_text) /\ Len(clean_text) <= MaxFallbackLen
    /\ \E k \in DOMAIN clean_text : IsAlnum(clean_text[k])

\* validate_international_plate, lines 144-205
validate_international_plate(plate_text) ==
    IF plate_text = <<>>
    THEN [valid |-> FALSE, format |-> "Invalid", cleaned |-> <<>>]
    ELSE LET clean_text == Strip([i \in DOMAIN plate_text |-> Upper(plate_text[i])])
             p == IntlFirstMatchFrom(clean_text, 1)
         IN  IF p # 0
             THEN [valid |-> TRUE, format |-> intl_patterns[p].name,
                   cleaned |-> clean_text]
             ELSE IF FallbackAccepts(clean_text)
             THEN [valid |-> TRUE, format |-> "UNKNOWN_VALID",
                   cleaned |-> clean_text]
             ELSE [valid |-> FALSE, format |-> "INVALID", cleaned |-> clean_text]

NoIntl == [valid |-> FALSE, format |-> "none", cleaned |-> <<>>]

IntlAlphabet == {"A", "b", "2", " ", "-", "U00B7", "U4EAC", "!"}
MaxIntlRich == 3
MaxIntlLen == 11

\* the plates of test_zimbabwe_validation, test_real_plate.py lines 121-131
TestPlates ==
    { <<"A", "B", "H", "2", "4", "1", "1">>,
      <<"A", "B", "H", " ", "2", "4", "1", "1">>,
      <<"A", "B", "H", "-", "2", "4", "1", "1">>,
      <<"A", "B", "U00B7", "1", "2", "3", "C", "D">>,
      <<"A", "B", "C", "-", "1", "2", "3", "D">>,
      <<"Z", "W", "1", "2", "3", "A", "B">>,
      <<"I", "N", "V", "A", "L", "I", "D">>,
      <<"A", "1", "B", "2", "C", "3", "D", "4", "E">>,
      <<"A", "B">> }

\* validate_international_plate is called on the text extended by one
\* character
IntlNext(c) ==
    /\ Len(text) < MaxIntlRich
    /\ c \in IntlAlphabet
    /\ text' = Append(text, c)
    /\ intl' = validate_international_plate(text')

\* the same on the long texts, made of letters and digits only
IntlLong(c) ==
    /\ Len(text) < MaxIntlLen
    /\ c \in CoreAlphabet
    /\ Range(text) \subseteq CoreAlphabet
    /\ text' = Append(text, c)
    /\ intl' = validate_international_plate(text')

\* the same on a plate of the test
IntlTestPlate(t) ==
    /\ text = <<>>
    /\ text' = t
    /\ intl' = validate_international_plate(text')

-----------------------------------------------------------------------------
(* Boom gate (boom_gate/models.py) and the coroutines that drive the       *)
(* shared main_gate: the consumer handlers (one event loop) and the        *)
(* gate_sequence threads of trigger_gate_sync (one event loop each).  A    *)
(* coroutine gives way at each await; a thread may also be interleaved     *)
(* between the state test of open_gate / close_gate and the assignment     *)
(* that follows it.                                                        *)

Tasks == {1, 2}
MaxStops == 1
GateOps == {"open_gate", "close_gate", "auto_cycle", "gate_sequence"}

IdleTask ==
    [op |-> "none", pc |-> "idle",
     openRet |-> "none", openState |-> "none",
     closeRet |-> "none", closeState |-> "none",
     ret |-> "none", sawOpen |-> FALSE, sawClosed |-> FALSE]

\* what an auto_cycle call in progress sees of the gate: that it was open,
\* and that it was closed after having been open
Observe(old, new, st) ==
    [t \in Tasks |->
        IF new[t].op = "auto_cycle" /\ old[t].pc # "done"
        THEN [new[t] EXCEPT !.sawOpen = @ \/ st = "open",
                            !.sawClosed = @ \/ (old[t].sawOpen /\ st = "closed")]
        ELSE new[t]]

\* open_gate returned v with the gate in state st: handle_open_gate is
\* done; auto_cycle (line 84) ignores v and goes on to its sleep;
\* gate_sequence (sync_controller.py lines 54-57) returns False on False
AfterOpen(task, v, st) ==
    LET t1 == [task EXCEPT !.openRet = v, !.openState = st]
    IN  IF task.op = "open_gate" THEN [t1 EXCEPT !.pc = "done", !.ret = v]
        ELSE IF task.op = "gate_sequence" /\ v = "False"
        THEN [t1 EXCEPT !.pc = "done", !.ret = "False"]
        ELSE [t1 EXCEPT !.pc = "hold"]

\* close_gate returned v with the gate in state st: auto_cycle (lines
\* 90-92) ignores v and returns True; gate_sequence (lines 74-87) and
\* handle_close_gate return v
AfterClose(task, v, st) ==
    LET t1 == [task EXCEPT !.closeRet = v, !.closeState = st, !.pc = "done"]
    IN  IF task.op = "auto_cycle" THEN [t1 EXCEPT !.ret = "True"]
        ELSE [t1 EXCEPT !.ret = v]

\* consumers.py lines 72-128, sync_controller.py lines 14-54: a command
\* arrives and its coroutine reaches its first call on main_gate
StartTask(t, op) ==
    /\ tasks[t].pc = "idle"
    /\ tasks' = Observe(tasks,
                    [tasks EXCEPT ![t] =
                        [IdleTask EXCEPT !.op = op,
                                         !.pc = IF op = "close_gate"
                                                THEN "close_check"
                                                ELSE "open_check"]],
                    gate_state)
    /\ stopped' = IF op = "close_gate" THEN stopped ELSE FALSE
    /\ UNCHANGED <<gate_state, is_operational, stops>>

\* models.py lines 40-46: open_gate returns False when the gate is not
\* operational and True when it is open or opening
OpenCheck(t) ==
    /\ tasks[t].pc = "open_check"
    /\ tasks' = Observe(tasks,
                    [tasks EXCEPT ![t] =
                        IF ~is_operational THEN AfterOpen(@, "False", gate_state)
                        ELSE IF gate_state \in {"open", "opening"}
                        THEN AfterOpen(@, "True", gate_state)
                        ELSE [@ EXCEPT !.pc = "open_set"]],
                    gate_state)
    /\ UNCHANGED <<gate_state, is_operational, stops, stopped>>

\* models.py lines 48-53: the state becomes OPENING and the coroutine
\* sleeps
OpenStart(t) ==
    /\ tasks[t].pc = "open_set"
    /\ gate_state' = "opening"
    /\ tasks' = Observe(tasks, [tasks EXCEPT ![t].pc = "open_sleep"], gate_state')
    /\ UNCHANGED <<is_operational, stops, stopped>>

\* models.py lines 55-57: after the sleep the state becomes OPEN and
\* open_gate returns True
OpenFinish(t) ==
    /\ tasks[t].pc = "open_sleep"
    /\ gate_state' = "open"
    /\ tasks' = Observe(tasks,
                    [tasks EXCEPT ![t] = AfterOpen(@, "True", gate_state')],
                    gate_state')
    /\ UNCHANGED <<is_operational, stops, stopped>>

\* models.py line 87, sync_controller.py line 67: the gate is kept open
\* for open_duration, then close_gate is called
Hold(t) ==
    /\ tasks[t].pc = "hold"
    /\ tasks' = Observe(tasks, [tasks EXCEPT ![t].pc = "close_check"], gate_state)
    /\ UNCHANGED <<gate_state, is_operational, stops, stopped>>

\* models.py lines 61-67: close_gate returns False when the gate is not
\* operational and True when it is closed or closing
CloseCheck(t) ==
    /\ tasks[t].pc = "close_check"
    /\ tasks' = Observe(tasks,
                    [tasks EXCEPT ![t] =
                        IF ~is_operational THEN AfterClose(@, "False", gate_state)
                        ELSE IF gate_state \in {"closed", "closing"}
                        THEN AfterClose(@, "True", gate_state)
                        ELSE [@ EXCEPT !.pc = "close_set"]],
                    gate_state)
    /\ UNCHANGED <<gate_state, is_operational, stops, stopped>>

\* models.py lines 69-74: the state becomes CLOSING and the coroutine
\* sleeps
CloseStart(t) ==
    /\ tasks[t].pc = "close_set"
    /\ gate_state' = "closing"
    /\ tasks' = Observe(tasks, [tasks EXCEPT ![t].pc = "close_sleep"], gate_state')
    /\ UNCHANGED <<is_operational, stops, stopped>>

\* models.py lines 76-78: after the sleep the state becomes CLOSED and
\* close_gate returns True
CloseFinish(t) ==
    /\ tasks[t].pc = "close_sleep"
    /\ gate_state' = "closed"
    /\ tasks' = Observe(tasks,
                    [tasks EXCEPT ![t] = AfterClose(@, "True", gate_state')],
                    gate_state')
    /\ UNCHANGED <<is_operational, stops, stopped>>

\* models.py lines 99-103, called by handle_emergency_stop and
\* emergency_stop_sync: the state becomes CLOSED; no coroutine is told
EmergencyStop ==
    /\ stops < MaxStops
    /\ stops' = stops + 1
    /\ gate_state' = "closed"
    /\ stopped' = TRUE
    /\ tasks' = Observe(tasks, tasks, gate_state')
    /\ UNCHANGED is_operational

\* models.py lines 105-108
SetOperational(operational) ==
    /\ is_operational # operational
    /\ is_operational' = operational
    /\ UNCHANGED <<gate_state, tasks, stops, stopped>>

-----------------------------------------------------------------------------
vars == <<text, vout, candidates, filtered, kept, pc, caller, image, backend,
          regions, idx, best_result, best_confidence, result, ppi, tiers,
          tried, ocrCalls, elapsed, best_time, processing_time, run, first,
          scoreIn, scoreOut,
          input0, input, colour, fpc, fstrategy, fregion, arrays,
          dpc, strategy, outcomes,
          ipc, inferLog,
          preIn, preOut,
          payN, payI, payOut, paypc, accounts, payPaths,
          intl,
          gate_state, is_operational, tasks, stops, stopped>>

NextValidate ==
    \/ \E c \in Alphabet : ValidateNext(c) /\ UNCHANGED <<dedupVars, pipeVars, scoreVars, frameVars, genVars, inferVars, preVars, payVars, intlVars, gateVars>>
    \/ \E c \in CoreAlphabet : ValidateLong(c) /\ UNCHANGED <<dedupVars, pipeVars, scoreVars, frameVars, genVars, inferVars, preVars, payVars, intlVars, gateVars>>

\* the validator before its first call; the other components do not run
InitValidate ==
    /\ text = <<>>
    /\ vout = validate_plate_text(<<>>)
    /\ candidates = <<>>
    /\ filtered = <<>>
    /\ kept = <<>>
    /\ pc = "off"
    /\ caller = "none"
    /\ image = "none"
    /\ backend = "working"
    /\ regions = <<>>
    /\ idx = 1
    /\ best_result = NoResult
    /\ best_confidence = 0
    /\ result = NoResult
    /\ ppi = NoPpi
    /\ tiers = <<>>
    /\ tried = <<>>
    /\ ocrCalls = 0
    /\ elapsed = 0
    /\ best_time = -1
    /\ processing_time = -1
    /\ run = 1
    /\ first = NoFirst
    /\ scoreIn = NoScoreIn
    /\ scoreOut = RegionScore(<<>>, 0)
    /\ input0 = <<0, 0>>
    /\ input = <<0, 0>>
    /\ colour = TRUE
    /\ fpc = "off"
    /\ fstrategy = 1
    /\ fregion = 0
    /\ arrays = NoArrays
    /\ dpc = "off"
    /\ strategy = 1
    /\ outcomes = <<>>
    /\ ipc = "off"
    /\ inferLog = <<>>
    /\ preIn = NoPreIn
    /\ preOut = NoPreOut
    /\ payN = 0
    /\ payI = 0
    /\ payOut = <<>>
    /\ paypc = "off"
    /\ accounts = <<>>
    /\ payPaths = <<>>
    /\ intl = NoIntl
    /\ gate_state = "closed"
    /\ is_operational = TRUE
    /\ tasks = <<>>
    /\ stops = 0
    /\ stopped = FALSE

SpecValidate == InitValidate /\ [][NextValidate]_vars

NextDedup ==
    \/ \E r \in Rects : AddCandidate(r) /\ UNCHANGED <<valVars, pipeVars, scoreVars, frameVars, genVars, inferVars, preVars, payVars, intlVars, gateVars>>
    \/ \E r \in SpreadRects : AddSpread(r) /\ UNCHANGED <<valVars, pipeVars, scoreVars, frameVars, genVars, inferVars, preVars, payVars, intlVars, gateVars>>

\* the deduplicator before its first candidate; the other components do
\* not run
InitDedup ==
    /\ text = <<>>
    /\ vout = validate_plate_text(<<>>)
    /\ candidates = <<>>
    /\ filtered = <<>>
    /\ kept = <<>>
    /\ pc = "off"
    /\ caller = "none"
    /\ image = "none"
    /\ backend = "working"
    /\ regions = <<>>
    /\ idx = 1
    /\ best_result = NoResult
    /\ best_confidence = 0
    /\ result = NoResult
    /\ ppi = NoPpi
    /\ tiers = <<>>
    /\ tried = <<>>
    /\ ocrCalls = 0
    /\ elapsed = 0
    /\ best_time = -1
    /\ processing_time = -1
    /\ run = 1
    /\ first = NoFirst
    /\ scoreIn = NoScoreIn
    /\ scoreOut = RegionScore(<<>>, 0)
    /\ input0 = <<0, 0>>
    /\ input = <<0, 0>>
    /\ colour = TRUE
    /\ fpc = "off"
    /\ fstrategy = 1
    /\ fregion = 0
    /\ arrays = NoArrays
    /\ dpc = "off"
    /\ strategy = 1
    /\ outcomes = <<>>
    /\ ipc = "off"
    /\ inferLog = <<>>
    /\ preIn = NoPreIn
    /\ preOut = NoPreOut
    /\ payN = 0
    /\ payI = 0
    /\ payOut = <<>>
    /\ paypc = "off"
    /\ accounts = <<>>
    /\ payPaths = <<>>
    /\ intl = NoIntl
    /\ gate_state = "closed"
    /\ is_operational = TRUE
    /\ tasks = <<>>
    /\ stops = 0
    /\ stopped = FALSE

SpecDedup == InitDedup /\ [][NextDedup]_vars

NextScore ==
    \E ts \in ScoreTextLists, c \in Confidences, rest \in Confidences,
       area \in ScoreAreas :
        ScoreRegion(ts, c, rest, area)
            /\ UNCHANGED <<valVars, dedupVars, pipeVars, frameVars, genVars, inferVars, preVars, payVars, intlVars, gateVars>>

\* the scorer before its first region; the other components do not run
InitScore ==
    /\ text = <<>>
    /\ vout = validate_plate_text(<<>>)
    /\ candidates = <<>>
    /\ filtered = <<>>
    /\ kept = <<>>
    /\ pc = "off"
    /\ caller = "none"
    /\ image = "none"
    /\ backend = "working"
    /\ regions = <<>>
    /\ idx = 1
    /\ best_result = NoResult
    /\ best_confidence = 0
    /\ result = NoResult
    /\ ppi = NoPpi
    /\ tiers = <<>>
    /\ tried = <<>>
    /\ ocrCalls = 0
    /\ elapsed = 0
    /\ best_time = -1
    /\ processing_time = -1
    /\ run = 1
    /\ first = NoFirst
    /\ scoreIn = NoScoreIn
    /\ scoreOut = RegionScore(<<>>, 0)
    /\ input0 = <<0, 0>>
    /\ input = <<0, 0>>
    /\ colour = TRUE
    /\ fpc = "off"
    /\ fstrategy = 1
    /\ fregion = 0
    /\ arrays = NoArrays
    /\ dpc = "off"
    /\ strategy = 1
    /\ outcomes = <<>>
    /\ ipc = "off"
    /\ inferLog = <<>>
    /\ preIn = NoPreIn
    /\ preOut = NoPreOut
    /\ payN = 0
    /\ payI = 0
    /\ payOut = <<>>
    /\ paypc = "off"
    /\ accounts = <<>>
    /\ payPaths = <<>>
    /\ intl = NoIntl
    /\ gate_state = "closed"
    /\ is_operational = TRUE
    /\ tasks = <<>>
    /\ stops = 0
    /\ stopped = FALSE

SpecScore == InitScore /\ [][NextScore]_vars

Next ==
    \/ \E d \in BOOLEAN : CallProcessPlateImage(d) /\ UNCHANGED <<valVars, dedupVars, scoreVars, frameVars, genVars, inferVars, preVars, payVars, intlVars, gateVars>>
    \/ \E img \in Images : CallDetect(img) /\ UNCHANGED <<valVars, dedupVars, scoreVars, frameVars, genVars, inferVars, preVars, payVars, intlVars, gateVars>>
    \/ LoadModel /\ UNCHANGED <<valVars, dedupVars, scoreVars, frameVars, genVars, inferVars, preVars, payVars, intlVars, gateVars>>
    \/ HandleInput /\ UNCHANGED <<valVars, dedupVars, scoreVars, frameVars, genVars, inferVars, preVars, payVars, intlVars, gateVars>>
    \/ \E c \in UniversalCandidates : TierUniversal(c) /\ UNCHANGED <<valVars, dedupVars, scoreVars, frameVars, genVars, inferVars, preVars, payVars, intlVars, gateVars>>
    \/ \E o \in CascadeRegions : TierCascade(o) /\ UNCHANGED <<valVars, dedupVars, scoreVars, frameVars, genVars, inferVars, preVars, payVars, intlVars, gateVars>>
    \/ \E o \in ContourRegions : TierContour(o) /\ UNCHANGED <<valVars, dedupVars, scoreVars, frameVars, genVars, inferVars, preVars, payVars, intlVars, gateVars>>
    \/ \E roi \in RoiOutcomes, c \in ReadtextCalls(backend) \cup {NotCalled} :
          ProcessRegion(roi, c) /\ UNCHANGED <<valVars, dedupVars, scoreVars, frameVars, genVars, inferVars, preVars, payVars, intlVars, gateVars>>
    \/ Select /\ UNCHANGED <<valVars, dedupVars, scoreVars, frameVars, genVars, inferVars, preVars, payVars, intlVars, gateVars>>
    \/ \E sim \in SimulatedPlates \cup {result.plate} :
          FinishProcessPlateImage(sim) /\ UNCHANGED <<valVars, dedupVars, scoreVars, frameVars, genVars, inferVars, preVars, payVars, intlVars, gateVars>>

\* the pipeline before an invocation, with the OCR backend in any of its
\* conditions
Init ==
    /\ text = <<>>
    /\ vout = validate_plate_text(<<>>)
    /\ candidates = <<>>
    /\ filtered = <<>>
    /\ kept = <<>>
    /\ pc = "idle"
    /\ caller = "none"
    /\ image = "none"
    /\ backend \in Backends
    /\ regions = <<>>
    /\ idx = 1
    /\ best_result = NoResult
    /\ best_confidence = 0
    /\ result = NoResult
    /\ ppi = NoPpi
    /\ tiers = <<>>
    /\ tried = <<>>
    /\ ocrCalls = 0
    /\ elapsed = 0
    /\ best_time = -1
    /\ processing_time = -1
    /\ run = 1
    /\ first = NoFirst
    /\ scoreIn = NoScoreIn
    /\ scoreOut = RegionScore(<<>>, 0)
    /\ input0 = <<0, 0>>
    /\ input = <<0, 0>>
    /\ colour = TRUE
    /\ fpc = "off"
    /\ fstrategy = 1
    /\ fregion = 0
    /\ arrays = NoArrays
    /\ dpc = "off"
    /\ strategy = 1
    /\ outcomes = <<>>
    /\ ipc = "off"
    /\ inferLog = <<>>
    /\ preIn = NoPreIn
    /\ preOut = NoPreOut
    /\ payN = 0
    /\ payI = 0
    /\ payOut = <<>>
    /\ paypc = "off"
    /\ accounts = <<>>
    /\ payPaths = <<>>
    /\ intl = NoIntl
    /\ gate_state = "closed"
    /\ is_operational = TRUE
    /\ tasks = <<>>
    /\ stops = 0
    /\ stopped = FALSE

Spec == Init /\ [][Next]_vars

NextTwice ==
    \/ \E img \in Images : CallDetect(img) /\ UNCHANGED <<valVars, dedupVars, scoreVars, frameVars, genVars, inferVars, preVars, payVars, intlVars, gateVars>>
    \/ LoadModel /\ UNCHANGED <<valVars, dedupVars, scoreVars, frameVars, genVars, inferVars, preVars, payVars, intlVars, gateVars>>
    \/ HandleInput /\ UNCHANGED <<valVars, dedupVars, scoreVars, frameVars, genVars, inferVars, preVars, payVars, intlVars, gateVars>>
    \/ \E c \in UniversalCandidates : TierUniversal(c) /\ UNCHANGED <<valVars, dedupVars, scoreVars, frameVars, genVars, inferVars, preVars, payVars, intlVars, gateVars>>
    \/ \E o \in CascadeRegions : TierCascade(o) /\ UNCHANGED <<valVars, dedupVars, scoreVars, frameVars, genVars, inferVars, preVars, payVars, intlVars, gateVars>>
    \/ \E o \in ContourRegions : TierContour(o) /\ UNCHANGED <<valVars, dedupVars, scoreVars, frameVars, genVars, inferVars, preVars, payVars, intlVars, gateVars>>
    \/ \E roi \in RoiOutcomes, c \in ReadtextCalls(backend) \cup {NotCalled} :
          ProcessRegion(roi, c) /\ UNCHANGED <<valVars, dedupVars, scoreVars, frameVars, genVars, inferVars, preVars, payVars, intlVars, gateVars>>
    \/ Select /\ UNCHANGED <<valVars, dedupVars, scoreVars, frameVars, genVars, inferVars, preVars, payVars, intlVars, gateVars>>
    \/ Rerun /\ UNCHANGED <<valVars, dedupVars, scoreVars, frameVars, genVars, inferVars, preVars, payVars, intlVars, gateVars>>

\* the pipeline before the first of two calls on the same image, with a
\* stubbed OCR backend
InitTwice ==
    /\ text = <<>>
    /\ vout = validate_plate_text(<<>>)
    /\ candidates = <<>>
    /\ filtered = <<>>
    /\ kept = <<>>
    /\ pc = "idle"
    /\ caller = "none"
    /\ image = "none"
    /\ backend = "stub"
    /\ regions = <<>>
    /\ idx = 1
    /\ best_result = NoResult
    /\ best_confidence = 0
    /\ result = NoResult
    /\ ppi = NoPpi
    /\ tiers = <<>>
    /\ tried = <<>>
    /\ ocrCalls = 0
    /\ elapsed = 0
    /\ best_time = -1
    /\ processing_time = -1
    /\ run = 1
    /\ first = NoFirst
    /\ scoreIn = NoScoreIn
    /\ scoreOut = RegionScore(<<>>, 0)
    /\ input0 = <<0, 0>>
    /\ input = <<0, 0>>
    /\ colour = TRUE
    /\ fpc = "off"
    /\ fstrategy = 1
    /\ fregion = 0
    /\ arrays = NoArrays
    /\ dpc = "off"
    /\ strategy = 1
    /\ outcomes = <<>>
    /\ ipc = "off"
    /\ inferLog = <<>>
    /\ preIn = NoPreIn
    /\ preOut = NoPreOut
    /\ payN = 0
    /\ payI = 0
    /\ payOut = <<>>
    /\ paypc = "off"
    /\ accounts = <<>>
    /\ payPaths = <<>>
    /\ intl = NoIntl
    /\ gate_state = "closed"
    /\ is_operational = TRUE
    /\ tasks = <<>>
    /\ stops = 0
    /\ stopped = FALSE


SpecTwice == InitTwice /\ [][NextTwice]_vars

NextFrame ==
    \/ \E px \in Pixels : FrameStrategy(px) /\ UNCHANGED <<valVars, dedupVars, pipeVars, scoreVars, genVars, inferVars, preVars, payVars, intlVars, gateVars>>
    \/ \E px \in Pixels : FrameFallback(px) /\ UNCHANGED <<valVars, dedupVars, pipeVars, scoreVars, genVars, inferVars, preVars, payVars, intlVars, gateVars>>
    \/ FrameRegions /\ UNCHANGED <<valVars, dedupVars, pipeVars, scoreVars, genVars, inferVars, preVars, payVars, intlVars, gateVars>>
    \/ FrameCrop /\ UNCHANGED <<valVars, dedupVars, pipeVars, scoreVars, genVars, inferVars, preVars, payVars, intlVars, gateVars>>
    \/ \E raised \in BOOLEAN, px \in Pixels :
          FrameEnhance(raised, px) /\ UNCHANGED <<valVars, dedupVars, pipeVars, scoreVars, genVars, inferVars, preVars, payVars, intlVars, gateVars>>
    \/ \E raised \in BOOLEAN, px \in Pixels :
          FramePreprocess(raised, px) /\ UNCHANGED <<valVars, dedupVars, pipeVars, scoreVars, genVars, inferVars, preVars, payVars, intlVars, gateVars>>
    \/ FrameReadtext /\ UNCHANGED <<valVars, dedupVars, pipeVars, scoreVars, genVars, inferVars, preVars, payVars, intlVars, gateVars>>
    \/ FrameReturn /\ UNCHANGED <<valVars, dedupVars, pipeVars, scoreVars, genVars, inferVars, preVars, payVars, intlVars, gateVars>>

\* one call on an array input, colour or grayscale, of any content, at the
\* first strategy of detect_plates
InitFrame ==
    /\ text = <<>>
    /\ vout = validate_plate_text(<<>>)
    /\ candidates = <<>>
    /\ filtered = <<>>
    /\ kept = <<>>
    /\ pc = "off"
    /\ caller = "none"
    /\ image = "none"
    /\ backend = "working"
    /\ regions = <<>>
    /\ idx = 1
    /\ best_result = NoResult
    /\ best_confidence = 0
    /\ result = NoResult
    /\ ppi = NoPpi
    /\ tiers = <<>>
    /\ tried = <<>>
    /\ ocrCalls = 0
    /\ elapsed = 0
    /\ best_time = -1
    /\ processing_time = -1
    /\ run = 1
    /\ first = NoFirst
    /\ scoreIn = NoScoreIn
    /\ scoreOut = RegionScore(<<>>, 0)
    /\ input0 \in Pixels
    /\ input = input0
    /\ colour \in BOOLEAN
    /\ fpc = "strategies"
    /\ fstrategy = 1
    /\ fregion = 0
    /\ arrays = NoArrays
    /\ dpc = "off"
    /\ strategy = 1
    /\ outcomes = <<>>
    /\ ipc = "off"
    /\ inferLog = <<>>
    /\ preIn = NoPreIn
    /\ preOut = NoPreOut
    /\ payN = 0
    /\ payI = 0
    /\ payOut = <<>>
    /\ paypc = "off"
    /\ accounts = <<>>
    /\ payPaths = <<>>
    /\ intl = NoIntl
    /\ gate_state = "closed"
    /\ is_operational = TRUE
    /\ tasks = <<>>
    /\ stops = 0
    /\ stopped = FALSE

SpecFrame == InitFrame /\ [][NextFrame]_vars

NextGenerators ==
    \/ \E fails \in BOOLEAN, out \in StrategyLists :
          RunNextStrategy(fails, out) /\ UNCHANGED <<valVars, pipeVars, scoreVars, frameVars, inferVars, preVars, payVars, intlVars, gateVars>>
    \/ FinishDetectPlates /\ UNCHANGED <<valVars, pipeVars, scoreVars, frameVars, inferVars, preVars, payVars, intlVars, gateVars>>
    \/ \E fails \in BOOLEAN, out \in StrategyLists :
          RunFallback(fails, out) /\ UNCHANGED <<valVars, pipeVars, scoreVars, frameVars, inferVars, preVars, payVars, intlVars, gateVars>>

\* detect_plates at line 211, before its first strategy
InitGenerators ==
    /\ text = <<>>
    /\ vout = validate_plate_text(<<>>)
    /\ candidates = <<>>
    /\ filtered = <<>>
    /\ kept = <<>>
    /\ pc = "off"
    /\ caller = "none"
    /\ image = "none"
    /\ backend = "working"
    /\ regions = <<>>
    /\ idx = 1
    /\ best_result = NoResult
    /\ best_confidence = 0
    /\ result = NoResult
    /\ ppi = NoPpi
    /\ tiers = <<>>
    /\ tried = <<>>
    /\ ocrCalls = 0
    /\ elapsed = 0
    /\ best_time = -1
    /\ processing_time = -1
    /\ run = 1
    /\ first = NoFirst
    /\ scoreIn = NoScoreIn
    /\ scoreOut = RegionScore(<<>>, 0)
    /\ input0 = <<0, 0>>
    /\ input = <<0, 0>>
    /\ colour = TRUE
    /\ fpc = "off"
    /\ fstrategy = 1
    /\ fregion = 0
    /\ arrays = NoArrays
    /\ dpc = "strategies"
    /\ strategy = 1
    /\ outcomes = <<>>
    /\ ipc = "off"
    /\ inferLog = <<>>
    /\ preIn = NoPreIn
    /\ preOut = NoPreOut
    /\ payN = 0
    /\ payI = 0
    /\ payOut = <<>>
    /\ paypc = "off"
    /\ accounts = <<>>
    /\ payPaths = <<>>
    /\ intl = NoIntl
    /\ gate_state = "closed"
    /\ is_operational = TRUE
    /\ tasks = <<>>
    /\ stops = 0
    /\ stopped = FALSE

SpecGenerators == InitGenerators /\ [][NextGenerators]_vars

NextInfer ==
    \E loaded \in BOOLEAN, call \in InferCalls :
        InferRegion(loaded, call)
            /\ UNCHANGED <<valVars, dedupVars, pipeVars, scoreVars, frameVars, genVars, preVars, payVars, intlVars, gateVars>>

\* a loop over regions before its first call of infer_plate_text
InitInfer ==
    /\ text = <<>>
    /\ vout = validate_plate_text(<<>>)
    /\ candidates = <<>>
    /\ filtered = <<>>
    /\ kept = <<>>
    /\ pc = "off"
    /\ caller = "none"
    /\ image = "none"
    /\ backend = "working"
    /\ regions = <<>>
    /\ idx = 1
    /\ best_result = NoResult
    /\ best_confidence = 0
    /\ result = NoResult
    /\ ppi = NoPpi
    /\ tiers = <<>>
    /\ tried = <<>>
    /\ ocrCalls = 0
    /\ elapsed = 0
    /\ best_time = -1
    /\ processing_time = -1
    /\ run = 1
    /\ first = NoFirst
    /\ scoreIn = NoScoreIn
    /\ scoreOut = RegionScore(<<>>, 0)
    /\ input0 = <<0, 0>>
    /\ input = <<0, 0>>
    /\ colour = TRUE
    /\ fpc = "off"
    /\ fstrategy = 1
    /\ fregion = 0
    /\ arrays = NoArrays
    /\ dpc = "off"
    /\ strategy = 1
    /\ outcomes = <<>>
    /\ ipc = "loop"
    /\ inferLog = <<>>
    /\ preIn = NoPreIn
    /\ preOut = NoPreOut
    /\ payN = 0
    /\ payI = 0
    /\ payOut = <<>>
    /\ paypc = "off"
    /\ accounts = <<>>
    /\ payPaths = <<>>
    /\ intl = NoIntl
    /\ gate_state = "closed"
    /\ is_operational = TRUE
    /\ tasks = <<>>
    /\ stops = 0
    /\ stopped = FALSE

SpecInfer == InitInfer /\ [][NextInfer]_vars

NextSpans ==
    \E sp \in SpanLists(MaxSpans) :
        InferSpans(sp)
            /\ UNCHANGED <<valVars, dedupVars, pipeVars, scoreVars, frameVars, genVars, preVars, payVars, intlVars, gateVars>>

\* before one call of infer_plate_text with a loaded model
InitSpans ==
    /\ text = <<>>
    /\ vout = validate_plate_text(<<>>)
    /\ candidates = <<>>
    /\ filtered = <<>>
    /\ kept = <<>>
    /\ pc = "off"
    /\ caller = "none"
    /\ image = "none"
    /\ backend = "working"
    /\ regions = <<>>
    /\ idx = 1
    /\ best_result = NoResult
    /\ best_confidence = 0
    /\ result = NoResult
    /\ ppi = NoPpi
    /\ tiers = <<>>
    /\ tried = <<>>
    /\ ocrCalls = 0
    /\ elapsed = 0
    /\ best_time = -1
    /\ processing_time = -1
    /\ run = 1
    /\ first = NoFirst
    /\ scoreIn = NoScoreIn
    /\ scoreOut = RegionScore(<<>>, 0)
    /\ input0 = <<0, 0>>
    /\ input = <<0, 0>>
    /\ colour = TRUE
    /\ fpc = "off"
    /\ fstrategy = 1
    /\ fregion = 0
    /\ arrays = NoArrays
    /\ dpc = "off"
    /\ strategy = 1
    /\ outcomes = <<>>
    /\ ipc = "once"
    /\ inferLog = <<>>
    /\ preIn = NoPreIn
    /\ preOut = NoPreOut
    /\ payN = 0
    /\ payI = 0
    /\ payOut = <<>>
    /\ paypc = "off"
    /\ accounts = <<>>
    /\ payPaths = <<>>
    /\ intl = NoIntl
    /\ gate_state = "closed"
    /\ is_operational = TRUE
    /\ tasks = <<>>
    /\ stops = 0
    /\ stopped = FALSE

SpecSpans == InitSpans /\ [][NextSpans]_vars

NextPreprocess ==
    \E in \in PreInputs :
        PreprocessImage(in)
            /\ UNCHANGED <<valVars, dedupVars, pipeVars, scoreVars, frameVars, genVars, inferVars, payVars, intlVars, gateVars>>

\* before one call of preprocess_image
InitPreprocess ==
    /\ text = <<>>
    /\ vout = validate_plate_text(<<>>)
    /\ candidates = <<>>
    /\ filtered = <<>>
    /\ kept = <<>>
    /\ pc = "off"
    /\ caller = "none"
    /\ image = "none"
    /\ backend = "working"
    /\ regions = <<>>
    /\ idx = 1
    /\ best_result = NoResult
    /\ best_confidence = 0
    /\ result = NoResult
    /\ ppi = NoPpi
    /\ tiers = <<>>
    /\ tried = <<>>
    /\ ocrCalls = 0
    /\ elapsed = 0
    /\ best_time = -1
    /\ processing_time = -1
    /\ run = 1
    /\ first = NoFirst
    /\ scoreIn = NoScoreIn
    /\ scoreOut = RegionScore(<<>>, 0)
    /\ input0 = <<0, 0>>
    /\ input = <<0, 0>>
    /\ colour = TRUE
    /\ fpc = "off"
    /\ fstrategy = 1
    /\ fregion = 0
    /\ arrays = NoArrays
    /\ dpc = "off"
    /\ strategy = 1
    /\ outcomes = <<>>
    /\ ipc = "off"
    /\ inferLog = <<>>
    /\ preIn = NoPreIn
    /\ preOut = NoPreOut
    /\ payN = 0
    /\ payI = 0
    /\ payOut = <<>>
    /\ paypc = "off"
    /\ accounts = <<>>
    /\ payPaths = <<>>
    /\ intl = NoIntl
    /\ gate_state = "closed"
    /\ is_operational = TRUE
    /\ tasks = <<>>
    /\ stops = 0
    /\ stopped = FALSE

SpecPreprocess == InitPreprocess /\ [][NextPreprocess]_vars

NextPayments ==
    \/ \E failure \in PayFailures, phone \in Phones, paynow \in BOOLEAN :
          SimulateStep(failure, phone, paynow)
              /\ UNCHANGED <<valVars, dedupVars, pipeVars, scoreVars, frameVars, genVars, inferVars, preVars, intlVars, gateVars>>
    \/ SimulateReturn
          /\ UNCHANGED <<valVars, dedupVars, pipeVars, scoreVars, frameVars, genVars, inferVars, preVars, intlVars, gateVars>>

\* simulate_transaction_log(n) at line 201, over a database in which each
\* plate is registered or not, with a balance that covers the toll or not
InitPayments ==
    /\ text = <<>>
    /\ vout = validate_plate_text(<<>>)
    /\ candidates = <<>>
    /\ filtered = <<>>
    /\ kept = <<>>
    /\ pc = "off"
    /\ caller = "none"
    /\ image = "none"
    /\ backend = "working"
    /\ regions = <<>>
    /\ idx = 1
    /\ best_result = NoResult
    /\ best_confidence = 0
    /\ result = NoResult
    /\ ppi = NoPpi
    /\ tiers = <<>>
    /\ tried = <<>>
    /\ ocrCalls = 0
    /\ elapsed = 0
    /\ best_time = -1
    /\ processing_time = -1
    /\ run = 1
    /\ first = NoFirst
    /\ scoreIn = NoScoreIn
    /\ scoreOut = RegionScore(<<>>, 0)
    /\ input0 = <<0, 0>>
    /\ input = <<0, 0>>
    /\ colour = TRUE
    /\ fpc = "off"
    /\ fstrategy = 1
    /\ fregion = 0
    /\ arrays = NoArrays
    /\ dpc = "off"
    /\ strategy = 1
    /\ outcomes = <<>>
    /\ ipc = "off"
    /\ inferLog = <<>>
    /\ preIn = NoPreIn
    /\ preOut = NoPreOut
    /\ payN \in 0 .. MaxLog
    /\ payI = 0
    /\ payOut = <<>>
    /\ paypc = "loop"
    /\ accounts \in [1 .. MaxLog -> [registered : BOOLEAN, balance : Balances]]
    /\ payPaths = <<>>
    /\ intl = NoIntl
    /\ gate_state = "closed"
    /\ is_operational = TRUE
    /\ tasks = <<>>
    /\ stops = 0
    /\ stopped = FALSE

SpecPayments == InitPayments /\ [][NextPayments]_vars

NextIntl ==
    \/ \E c \in IntlAlphabet : IntlNext(c)
          /\ UNCHANGED <<vout, dedupVars, pipeVars, scoreVars, frameVars, genVars, inferVars, preVars, payVars, gateVars>>
    \/ \E c \in CoreAlphabet : IntlLong(c)
          /\ UNCHANGED <<vout, dedupVars, pipeVars, scoreVars, frameVars, genVars, inferVars, preVars, payVars, gateVars>>
    \/ \E t \in TestPlates : IntlTestPlate(t)
          /\ UNCHANGED <<vout, dedupVars, pipeVars, scoreVars, frameVars, genVars, inferVars, preVars, payVars, gateVars>>

\* the international validator before its first call
InitIntl ==
    /\ text = <<>>
    /\ vout = validate_plate_text(<<>>)
    /\ candidates = <<>>
    /\ filtered = <<>>
    /\ kept = <<>>
    /\ pc = "off"
    /\ caller = "none"
    /\ image = "none"
    /\ backend = "working"
    /\ regions = <<>>
    /\ idx = 1
    /\ best_result = NoResult
    /\ best_confidence = 0
    /\ result = NoResult
    /\ ppi = NoPpi
    /\ tiers = <<>>
    /\ tried = <<>>
    /\ ocrCalls = 0
    /\ elapsed = 0
    /\ best_time = -1
    /\ processing_time = -1
    /\ run = 1
    /\ first = NoFirst
    /\ scoreIn = NoScoreIn
    /\ scoreOut = RegionScore(<<>>, 0)
    /\ input0 = <<0, 0>>
    /\ input = <<0, 0>>
    /\ colour = TRUE
    /\ fpc = "off"
    /\ fstrategy = 1
    /\ fregion = 0
    /\ arrays = NoArrays
    /\ dpc = "off"
    /\ strategy = 1
    /\ outcomes = <<>>
    /\ ipc = "off"
    /\ inferLog = <<>>
    /\ preIn = NoPreIn
    /\ preOut = NoPreOut
    /\ payN = 0
    /\ payI = 0
    /\ payOut = <<>>
    /\ paypc = "off"
    /\ accounts = <<>>
    /\ payPaths = <<>>
    /\ intl = validate_international_plate(<<>>)
    /\ gate_state = "closed"
    /\ is_operational = TRUE
    /\ tasks = <<>>
    /\ stops = 0
    /\ stopped = FALSE

SpecIntl == InitIntl /\ [][NextIntl]_vars

NextGate ==
    \/ \E t \in Tasks, op \in GateOps : StartTask(t, op)
          /\ UNCHANGED <<valVars, dedupVars, pipeVars, scoreVars, frameVars, genVars, inferVars, preVars, payVars, intlVars>>
    \/ \E t \in Tasks : OpenCheck(t)
          /\ UNCHANGED <<valVars, dedupVars, pipeVars, scoreVars, frameVars, genVars, inferVars, preVars, payVars, intlVars>>
    \/ \E t \in Tasks : OpenStart(t)
          /\ UNCHANGED <<valVars, dedupVars, pipeVars, scoreVars, frameVars, genVars, inferVars, preVars, payVars, intlVars>>
    \/ \E t \in Tasks : OpenFinish(t)
          /\ UNCHANGED <<valVars, dedupVars, pipeVars, scoreVars, frameVars, genVars, inferVars, preVars, payVars, intlVars>>
    \/ \E t \in Tasks : Hold(t)
          /\ UNCHANGED <<valVars, dedupVars, pipeVars, scoreVars, frameVars, genVars, inferVars, preVars, payVars, intlVars>>
    \/ \E t \in Tasks : CloseCheck(t)
          /\ UNCHANGED <<valVars, dedupVars, pipeVars, scoreVars, frameVars, genVars, inferVars, preVars, payVars, intlVars>>
    \/ \E t \in Tasks : CloseStart(t)
          /\ UNCHANGED <<valVars, dedupVars, pipeVars, scoreVars, frameVars, genVars, inferVars, preVars, payVars, intlVars>>
    \/ \E t \in Tasks : CloseFinish(t)
          /\ UNCHANGED <<valVars, dedupVars, pipeVars, scoreVars, frameVars, genVars, inferVars, preVars, payVars, intlVars>>
    \/ EmergencyStop
          /\ UNCHANGED <<valVars, dedupVars, pipeVars, scoreVars, frameVars, genVars, inferVars, preVars, payVars, intlVars>>
    \/ \E operational \in BOOLEAN : SetOperational(operational)
          /\ UNCHANGED <<valVars, dedupVars, pipeVars, scoreVars, frameVars, genVars, inferVars, preVars, payVars, intlVars>>

\* main_gate after BoomGate.__init__ (lines 22-27), no command received yet
InitGate ==
    /\ text = <<>>
    /\ vout = validate_plate_text(<<>>)
    /\ candidates = <<>>
    /\ filtered = <<>>
    /\ kept = <<>>
    /\ pc = "off"
    /\ caller = "none"
    /\ image = "none"
    /\ backend = "working"
    /\ regions = <<>>
    /\ idx = 1
    /\ best_result = NoResult
    /\ best_confidence = 0
    /\ result = NoResult
    /\ ppi = NoPpi
    /\ tiers = <<>>
    /\ tried = <<>>
    /\ ocrCalls = 0
    /\ elapsed = 0
    /\ best_time = -1
    /\ processing_time = -1
    /\ run = 1
    /\ first = NoFirst
    /\ scoreIn = NoScoreIn
    /\ scoreOut = RegionScore(<<>>, 0)
    /\ input0 = <<0, 0>>
    /\ input = <<0, 0>>
    /\ colour = TRUE
    /\ fpc = "off"
    /\ fstrategy = 1
    /\ fregion = 0
    /\ arrays = NoArrays
    /\ dpc = "off"
    /\ strategy = 1
    /\ outcomes = <<>>
    /\ ipc = "off"
    /\ inferLog = <<>>
    /\ preIn = NoPreIn
    /\ preOut = NoPreOut
    /\ payN = 0
    /\ payI = 0
    /\ payOut = <<>>
    /\ paypc = "off"
    /\ accounts = <<>>
    /\ payPaths = <<>>
    /\ intl = NoIntl
    /\ gate_state = "closed"
    /\ is_operational = TRUE
    /\ tasks = [t \in Tasks |-> IdleTask]
    /\ stops = 0
    /\ stopped = FALSE

SpecGate == InitGate /\ [][NextGate]_vars

-----------------------------------------------------------------------------
(* Properties *)

Returned == pc \in {"returned", "ppi_done"} /\ caller # "none" /\ result # NoResult

\* C1: the list returned by _remove_overlaps, and so the one returned by
\* detect_plates, never holds two regions whose intersection area exceeds
\* 0.3 of the area of the smaller of the two.
C1_NoSignificantPairKept ==
    \A out \in {filtered, kept} :
        \A i, j \in DOMAIN out :
            i # j =>
                10 * OverlapArea(out[i], out[j])
                    <= 3 * Min2(out[i][3] * out[i][4], out[j][3] * out[j][4])

\* C1 witness: a candidate was dropped and two kept regions intersect
C1_Witness ==
    /\ Len(filtered) < Len(candidates)
    /\ \E i, j \in DOMAIN kept : i # j /\ OverlapArea(kept[i], kept[j]) > 0

\* C2: the tiers are tried in the order universal, classifier, contour; a
\* tier is invoked only if every earlier tier returned no region; the
\* regions processed are those of the last tier invoked; and when all three
\* return none the invocation fails with 'No license plate detected'
\* without an OCR call.
C2_TierFallback ==
    /\ Len(tiers) <= 3
    /\ \A i \in DOMAIN tiers :
          /\ tiers[i].tier = <<"UNIVERSAL", "CLASSIFIER", "CONTOUR">>[i]
          /\ \A j \in 1 .. (i - 1) : tiers[j].out = <<>>
    /\ tried # <<>> =>
          /\ tiers # <<>>
          /\ tiers[Len(tiers)].out # <<>>
          /\ Len(tried) <= Len(tiers[Len(tiers)].out)
          /\ \A k \in DOMAIN tried : tried[k].region = tiers[Len(tiers)].out[k]
    /\ (Len(tiers) = 3 /\ tiers[3].out = <<>>) =>
          /\ result = Failure("No license plate detected")
          /\ ocrCalls = 0
    /\ ocrCalls > 0 => \E i \in DOMAIN tiers : tiers[i].out # <<>>

\* C2 witness: the first two tiers found nothing, the contour tier found
\* regions and they were processed
C2_Witness ==
    /\ Returned
    /\ Len(tiers) = 3
    /\ tiers[3].out # <<>>
    /\ Len(tried) = Len(tiers[3].out)

\* C3: when the OCR backend cannot be loaded, or throws on every call made
\* on the regions of a well-formed image, the invocation returns the
\* backend-unavailable failure.
C3_BackendDownReported ==
    ( /\ Returned
      /\ image \in {"array", "base64"}
      /\ \/ backend = "unloadable"
         \/ backend = "throwing" /\ ocrCalls > 0 ) =>
        result = Failure("OCR model not available")

\* C4: process_plate_image reports success with a plate only when the
\* detector produced that plate for the image (here with the OCR library
\* installed, whether or not its model loads).
C4_NoFabricatedPlate ==
    (pc = "ppi_done" /\ ppi.success /\ backend # "not_installed") =>
        /\ result.kind = "success"
        /\ ppi.plate_number = result.plate

\* C5: with one region from the universal detector and the backend reading
\* "abh2411" at confidence 0.9, the result is the plate "ABH2411" with a
\* confidence above 0.7, found by the universal tier.
C5_ScenarioA ==
    ( /\ Returned
      /\ Len(tiers) = 1
      /\ Len(regions) = 1
      /\ Len(tried) = 1
      /\ tried[1].call = Returns(<<Span(TextABH, 9)>>) ) =>
        /\ result.kind = "success"
        /\ result.plate = <<"A", "B", "H", "2", "4", "1", "1">>
        /\ result.confidence > 7
        /\ tiers[1].tier = "UNIVERSAL"

\* C6: a text whose cleaned form has fewer than 4 or more than 9 characters
\* is rejected, whatever its characters and whether or not a pattern of the
\* table matches it.
C6_LengthRejects ==
    (Len(vout.cleaned) < 4 \/ Len(vout.cleaned) > 9) => ~vout.isValid

\* C6 witness: a cleaned text of 10 characters that a pattern matches
C6_Witness ==
    /\ Len(vout.cleaned) = 10
    /\ \E p \in DOMAIN patterns : ReMatch(patterns[p], vout.cleaned)
    /\ ~vout.isValid

\* C7 as stated: every cleaned string that matches a pattern of the table
\* is valid, with a matched pattern.
C7_MatchImpliesValid ==
    (\E p \in DOMAIN patterns : ReMatch(patterns[p], vout.cleaned)) =>
        vout.isValid /\ vout.matched # 0

\* C7 amended: every cleaned string of 4 to 9 characters that matches a
\* pattern of the table is valid, and the pattern loop returns at a pattern
\* that matches it.
C7_MatchInRangeImpliesValid ==
    ( /\ 4 <= Len(vout.cleaned) /\ Len(vout.cleaned) <= 9
      /\ \E p \in DOMAIN patterns : ReMatch(patterns[p], vout.cleaned) ) =>
        /\ vout.isValid
        /\ vout.matched \in DOMAIN patterns
        /\ ReMatch(patterns[vout.matched], vout.cleaned)

\* C7 witness: a cleaned string of 9 characters accepted at a pattern that
\* is not the first of the table
C7_Witness ==
    /\ Len(vout.cleaned) = 9
    /\ vout.isValid
    /\ vout.matched > 1

\* C8: a cleaned string of 4 to 9 characters that matches no pattern is
\* valid exactly when it holds at least one letter and at least one digit.
C8_GenericRule ==
    ( /\ text # <<>>
      /\ 4 <= Len(vout.cleaned) /\ Len(vout.cleaned) <= 9
      /\ \A p \in DOMAIN patterns : ~ReMatch(patterns[p], vout.cleaned) ) =>
        (vout.isValid <=>
            /\ \E k \in DOMAIN vout.cleaned : vout.cleaned[k] \in UpperLatin
            /\ \E k \in DOMAIN vout.cleaned : vout.cleaned[k] \in Digits)

\* C8 witness: a string of letters and digits that no pattern matches,
\* accepted by the generic rule
C8_Witness ==
    /\ Len(vout.cleaned) = 9
    /\ \A p \in DOMAIN patterns : ~ReMatch(patterns[p], vout.cleaned)
    /\ vout.isValid

\* C9: the string matched against the grammar table holds only upper-case
\* Latin letters and digits, and the text returned for display only
\* upper-case Latin letters, digits, whitespace and hyphens.
C9_CharacterClasses ==
    /\ \A k \in DOMAIN vout.cleaned :
          vout.cleaned[k] \in UpperLatin \cup Digits
    /\ \A k \in DOMAIN vout.display :
          vout.display[k] \in UpperLatin \cup Digits \cup {" ", "-"}

\* C9 witness: a text with a character to remove, a lower-case letter and an
\* accented letter, whose display text keeps a hyphen
C9_Witness ==
    /\ \E k \in DOMAIN text : text[k] = "!"
    /\ \E k \in DOMAIN text : text[k] = "U00E9"
    /\ \E k \in DOMAIN text : text[k] = "b"
    /\ \E k \in DOMAIN vout.display : vout.display[k] = "-"
    /\ Len(vout.cleaned) = 2

\* C10: the invocation returns the text, region and confidence of a region
\* whose score is the maximum over the regions that yielded text, the first
\* such region in rank order; it fails when no region yielded text.
C10_FirstMaximum ==
    (Returned /\ tried # <<>>) =>
        LET withText == {k \in DOMAIN tried : tried[k].text # <<>>}
        IN  IF withText = {} THEN result.kind = "failure"
            ELSE \E k \in withText :
                    /\ result = Success(tried[k].text, tried[k].score,
                                        tried[k].region)
                    /\ \A j \in withText :
                          /\ tried[j].score <= tried[k].score
                          /\ j < k => tried[j].score < tried[k].score

\* C10 witness: after a region of lower score, two regions read different
\* texts of equal, maximal score, and the first of the two is returned
C10_Witness ==
    /\ Returned
    /\ Len(tried) = 3
    /\ tried[1].text # <<>> /\ tried[2].text # <<>> /\ tried[3].text # <<>>
    /\ tried[2].text # tried[3].text
    /\ tried[2].score = tried[3].score
    /\ tried[1].score < tried[2].score
    /\ result.plate = tried[2].text

\* C11: a region on which enhancing, text extraction or validation failed
\* contributes no result; every region is still processed after a failing
\* one; and when a region yielded a valid plate the invocation succeeds.
C11_FailingRegionContributesNothing ==
    /\ \A k \in DOMAIN tried :
          ( \/ tried[k].roi # "enhanced"
            \/ tried[k].called /\ tried[k].call.raises ) =>
              tried[k].text = <<>>
    /\ (Returned /\ tried # <<>>) => Len(tried) = Len(regions)
    /\ (Returned /\ \E k \in DOMAIN tried : tried[k].text # <<>>) =>
          result.kind = "success"

\* C12: when regions were detected and no span the backend returned for
\* any of them passes validate_plate_text, the invocation ends in the
\* failure 'No valid license plate text detected'.
C12_NoValidText ==
    ( /\ Returned
      /\ tried # <<>>
      /\ \A k \in DOMAIN tried :
            \A n \in DOMAIN tried[k].call.spans :
                ~validate_plate_text(tried[k].call.spans[n].text).isValid ) =>
        result = Failure("No valid license plate text detected")

\* C12 witness: every region was read as the one-character text "X"
C12_Witness ==
    /\ Returned
    /\ tried # <<>>
    /\ \A k \in DOMAIN tried :
          tried[k].called /\ tried[k].call = Returns(<<Span(TextX, 9)>>)
    /\ result = Failure("No valid license plate text detected")

\* C13: no exception reaches the caller of detect_and_recognize_plate, and
\* the value it returns carries the elapsed time and is either a success (a
\* non-empty plate, a confidence, a region, no error) or a failure (no
\* plate, confidence 0, an error message); nothing is returned before.
C13_WellTypedResult ==
    /\ pc # "raised"
    /\ pc = "returned" => result # NoResult
    /\ Returned =>
          /\ processing_time \in 0 .. elapsed
          /\ \/ /\ result.kind = "success"
                /\ result.plate # <<>>
                /\ result.confidence \in 1 .. 10
                /\ Len(result.region) = 4
                /\ result.error = ""
             \/ /\ result.kind = "failure"
                /\ result.plate = <<>>
                /\ result.confidence = 0
                /\ result.region = <<>>
                /\ result.error \in
                      { "OCR model not available", "Preprocessing failed",
                        "Image processing failed",
                        "No license plate detected",
                        "No valid license plate text detected",
                        "Detection failed" }
    /\ pc \notin {"returned", "ppi_done"} =>
          result = NoResult /\ processing_time = -1

\* C13 witness: an input that is neither a string nor an array raised
\* inside the invocation, which returned the failure of the outer except
C13_Witness ==
    /\ Returned
    /\ image = "not_array"
    /\ result = Failure("Detection failed")
    /\ processing_time > 0

\* C14: for candidates of pairwise different areas, the set of regions
\* _remove_overlaps keeps, and the list detect_plates returns, are the same
\* for the list with any two neighbours exchanged; every list within the
\* bounds is checked, and the exchanges of neighbours generate every
\* ordering of a list, so the regions kept are the same for all orderings.
C14_OrderIndependent ==
    LET SwapAt(s, i) ==
            [k \in DOMAIN s |-> IF k = i THEN s[i + 1]
                                ELSE IF k = i + 1 THEN s[i] ELSE s[k]]
    IN  (\A i, j \in DOMAIN candidates :
            i # j => RectArea(candidates[i]) # RectArea(candidates[j])) =>
            \A i \in 1 .. (Len(candidates) - 1) :
                /\ Range(remove_overlaps(SwapAt(candidates, i)))
                      = Range(filtered)
                /\ detect_plates(SwapAt(candidates, i)) = kept

\* C14 witness: four candidates of different areas given smallest first,
\* of which one is dropped
C14_Witness ==
    /\ Len(candidates) = 4
    /\ \A i, j \in DOMAIN candidates :
          i < j => RectArea(candidates[i]) < RectArea(candidates[j])
    /\ Len(filtered) = 3

\* C15: detect_plates returns at most 5 regions, in order of non-increasing
\* area, each of them one of the candidates.
C15_TopFiveByArea ==
    /\ Len(kept) <= 5
    /\ \A i \in 1 .. (Len(kept) - 1) :
          kept[i][3] * kept[i][4] >= kept[i + 1][3] * kept[i + 1][4]
    /\ \A i \in DOMAIN kept : \E k \in DOMAIN candidates : kept[i] = candidates[k]

\* C15 witness: six candidates survive the deduplication, given smallest
\* first, and five are returned
C15_Witness ==
    /\ Len(filtered) = 6
    /\ Len(kept) = 5
    /\ RectArea(candidates[1]) < RectArea(candidates[2])

\* C16: of exactly two candidates of different areas whose intersection
\* exceeds 0.3 of the smaller area, in either order, detect_plates returns
\* the larger one and nothing else.
C16_LargerOfTwoKept ==
    ( /\ Len(candidates) = 2
      /\ RectArea(candidates[1]) # RectArea(candidates[2])
      /\ 10 * OverlapArea(candidates[1], candidates[2])
            > 3 * Min2(RectArea(candidates[1]), RectArea(candidates[2])) ) =>
        kept = << IF RectArea(candidates[1]) > RectArea(candidates[2])
                  THEN candidates[1] ELSE candidates[2] >>

\* C16 witness: two candidates that overlap by nine tenths of the larger,
\* the smaller given first, and the larger returned alone
C16_Witness ==
    /\ candidates = << <<0, 0, 100, 30>>, <<0, 0, 100, 33>> >>
    /\ kept = << <<0, 0, 100, 33>> >>

C18_ScoreInUnitInterval ==
    /\ \A t \in { <<>>, <<"X">>, <<"2", "3", "4", "5">>,
                  <<"A", "B", "C", "D">>, <<"A", "C", "2", "3", "4", "5">>,
                  <<"A", "B", "C", "D", "E", "F", "G", "H", "2">>,
                  <<"A", "B", " ", "2", "3", "4", "5", " ", "C", "D">> } :
          \A a \in {0, 1000, 2000, 2001, 4800} :
              estimate_plate_confidence(t, a) \in 0 .. 10
    /\ \A k \in DOMAIN tried : tried[k].score \in 0 .. 10
    /\ best_confidence \in 0 .. 10
    /\ result.confidence \in 0 .. 10

\* C18 witness: a plate returned with every bonus, at the highest score
C18_Witness ==
    /\ Returned
    /\ result.kind = "success"
    /\ result.confidence = 10
    /\ result.region[3] * result.region[4] > 2000

\* C19: a second call of detect_and_recognize_plate on the same image, with
\* detectors, enhancement and a stubbed OCR backend that answer as they did
\* in the first call, returns what the first call returned: the same kind
\* and error, and on success the same plate, confidence and region.
C19_SameOutcomeTwice ==
    (run = 2 /\ Returned) => result = first.result

\* C19 witness: both calls processed two regions or more and returned a
\* plate
C19_Witness ==
    /\ run = 2
    /\ Returned
    /\ result.kind = "success"
    /\ Len(tried) >= 2
    /\ Len(first.tried) >= 2

\* C20: the invocation is never left waiting on the OCR backend: in every
\* state it has returned to its caller or its next step can be taken, so
\* that a call of the backend that is not answered is given up and the
\* remaining regions and the return follow.
C20_NeverBlockedOnBackend ==
    pc \in {"returned", "ppi_done"} \/ ENABLED Next


\* C21: when detect_and_recognize_plate has returned, every pixel of the
\* input array has the value it had before the call, for a colour and for
\* a grayscale input.
C21_InputUnchanged ==
    fpc = "returned" => input = input0

\* C21 witness: a call on a grayscale image returned after the OCR backend
\* was handed a view of the caller's buffer (enhancement and preprocessing
\* both fell back to their argument)
C21_Witness ==
    /\ fpc = "returned"
    /\ ~colour
    /\ arrays.processed_roi = "input"
    /\ input = input0

\* C22: no candidate generator hands an exception to its caller; a
\* generator that fails internally contributes the empty list, and
\* detect_plates returns the deduplicated, truncated concatenation of what
\* the other strategies produced.
C22_GeneratorsNeverRaise ==
    LET others[n \in 0 .. NumStrategies] ==
            IF n = 0 THEN <<>>
            ELSE others[n - 1] \o
                 (IF outcomes[n].failed THEN <<>> ELSE outcomes[n].value)
    IN  /\ \A i \in DOMAIN outcomes :
              /\ ~outcomes[i].raised
              /\ outcomes[i].failed => outcomes[i].value = <<>>
        /\ dpc \in {"universal_done", "cascade_done", "contour_done"} =>
              /\ Len(outcomes) >= NumStrategies
              /\ kept = detect_plates(others[NumStrategies])

\* C22 witness: detect_plates returned regions although two of its
\* strategies failed
C22_Witness ==
    /\ dpc = "universal_done"
    /\ kept # <<>>
    /\ Cardinality({i \in 1 .. NumStrategies : outcomes[i].failed}) = 2

\* C23: infer_plate_text never raises to its caller; when the backend is
\* not loaded, returns no spans or throws, it returns None (the empty
\* text), and the loop calling it goes on.
C23_ExtractorNeverRaises ==
    /\ ipc # "raised"
    /\ \A i \in DOMAIN inferLog :
          LET e == inferLog[i]
          IN  /\ ~e.raised
              /\ (~e.loaded \/ e.call.raises \/ e.call.spans = <<>>)
                    => e.text = <<>>

\* C23 witness: after a call in which the backend threw, the loop made a
\* second call, which returned a text
C23_Witness ==
    /\ ipc = "loop"
    /\ Len(inferLog) = 2
    /\ inferLog[1].loaded /\ inferLog[1].call.raises
    /\ inferLog[1].text = <<>>
    /\ inferLog[2].text # <<>>

\* C30: for any list of spans the backend returns for a region,
\* infer_plate_text returns the display text of the valid span of highest
\* confidence above 0.5, the first of them on equal confidence, and None
\* when no span is both valid and above 0.5.
C30_BestValidSpan ==
    \A i \in DOMAIN inferLog :
        LET e == inferLog[i]
            sp == e.call.spans
            good(k) == /\ validate_plate_text(sp[k].text).isValid
                       /\ sp[k].conf > 5
            top == {k \in DOMAIN sp :
                       /\ good(k)
                       /\ \A j \in DOMAIN sp : good(j) => sp[j].conf <= sp[k].conf}
        IN  (e.loaded /\ ~e.call.raises) =>
                IF top = {} THEN e.text = <<>>
                ELSE LET k == CHOOSE m \in top : \A n \in top : m <= n
                     IN  e.text = validate_plate_text(sp[k].text).display

\* C30 witness: of two valid spans of the same confidence the first was
\* returned, although an invalid span had a higher confidence
C30_Witness ==
    /\ ipc = "called"
    /\ inferLog[1].call.spans = <<Span(TextX, 9), Span(TextAC, 6), Span(TextABH, 6)>>
    /\ inferLog[1].text = validate_plate_text(TextAC).display
    /\ inferLog[1].text # validate_plate_text(TextABH).display

\* C24: preprocess_image called with raw bytes, decodable or not, returns
\* without raising a dict whose 'status' is "preprocessed" and whose 'size'
\* is the number of input bytes.
C24_StatusAndSize ==
    (preOut.called /\ preIn.kind = "bytes") =>
        /\ ~preOut.raised
        /\ "status" \in DOMAIN preOut.dict
        /\ preOut.dict["status"] = "preprocessed"
        /\ "size" \in DOMAIN preOut.dict
        /\ preOut.dict["size"] = preIn.size

\* C25: simulate_transaction_log(n) returns a list of exactly n entries,
\* each with the keys plate, timestamp, amount, payment_method and status,
\* whichever path process_payment takes for each plate; it never fails on
\* a missing 'status'.
C25_LogOfNEntries ==
    /\ paypc # "raised"
    /\ paypc = "returned" =>
          /\ Len(payOut) = payN
          /\ \A i \in DOMAIN payOut :
                {"plate", "timestamp", "amount", "payment_method", "status"}
                    \subseteq DOMAIN payOut[i]

\* C25 witness: a log of three entries was returned after process_payment
\* took the exception path, the unregistered path and the
\* insufficient-balance path
C25_Witness ==
    /\ paypc = "returned"
    /\ payN = 3
    /\ Len(payOut) = 3
    /\ {"exception", "unregistered", "insufficient"} \subseteq Range(payPaths)

\* C26: validate_international_plate returns valid = False for every text
\* whose upper-cased, stripped form has fewer than 4 characters, or is a
\* string of more than 8 letters and digits without separators.
C26_ShortAndLongInvalid ==
    LET clean_text == Strip([i \in DOMAIN text |-> Upper(text[i])])
    IN  (\/ Len(clean_text) < 4
         \/ /\ Len(clean_text) > 8
            /\ Range(clean_text) \subseteq AlphaNumeric)
            => ~intl.valid

\* C27: after emergency_stop() the gate state is CLOSED and stays CLOSED
\* until a new open_gate or auto_cycle call is issued, even if such a call
\* was in progress when the stop was issued.
C27_StaysClosedAfterStop ==
    stopped => gate_state = "closed"

\* C28: whenever open_gate returns True the gate state is OPEN at the
\* moment of return, and whenever close_gate returns True it is CLOSED,
\* under any interleaving of concurrent calls on main_gate.
C28_ReturnMatchesState ==
    \A t \in Tasks :
        /\ tasks[t].openRet = "True" => tasks[t].openState = "open"
        /\ tasks[t].closeRet = "True" => tasks[t].closeState = "closed"

\* C29: auto_cycle returns True only if the gate opened and then closed
\* during the call; when the gate is not operational it returns False.
C29_CycleTrueOnlyIfCycled ==
    \A t \in Tasks :
        (tasks[t].op = "auto_cycle" /\ tasks[t].ret = "True") =>
            /\ tasks[t].sawOpen
            /\ tasks[t].sawClosed
            /\ tasks[t].openRet = "True"
            /\ tasks[t].closeRet = "True"
=============================================================================
